---- MODULE Spec2Model ----
(***************************************************************************)
(* Event correlation and subscription routing of the Teams bot app:        *)
(* the webhook dispatcher (utils/botHandler.ts), the sendMessage and       *)
(* threadSubscription (subscribeToReplies) blocks that register            *)
(* subscriptions, and the blocks' onInternalMessage handlers that emit.    *)
(*                                                                         *)
(* Strings that the code concatenates, splits, searches or matches are     *)
(* sequences of one-character strings; values that are only compared or    *)
(* tested for truthiness are TLA+ strings.                                 *)
(***************************************************************************)
EXTENDS Naturals, Sequences, FiniteSets, Bags, TLC

----------------------------------------------------------------------------
(* Bounds of the model *)

\* calls that fail while one activity is handled
MaxFaults == 1
\* executions of block inputs (sendMessage.default, threadSubscription.subscribe)
\* that register a subscription
MaxEvents == 2
\* blocks the user deletes from the flow while the app runs
MaxRemovals == 1
\* reaction markers (added plus removed) carried by one reaction activity
MaxReactions == 2

----------------------------------------------------------------------------
(* JavaScript values *)

\* undefined, for a string-valued field: a one-token sequence no string equals
Undefined == <<"undefined">>
\* undefined, for a field modelled as a TLA+ string
NoValue == "undefined"

\* truthiness of a string-valued field: undefined and "" are falsy
Truthy(s) == s # Undefined /\ s # <<>>
\* a truthiness under which the empty object is falsy too
TruthyValueNonEmpty(v) == v \notin {"undefined", "null", "", "{}"}

\* truthiness of a scalar field: undefined, null and "" are falsy
TruthyValue(v) == v \notin {"undefined", "null", ""}

\* String.prototype.startsWith
StartsWith(s, p) == Len(s) >= Len(p) /\ SubSeq(s, 1, Len(p)) = p

\* String.prototype.includes
Includes(s, sub) ==
    \E i \in 0..Len(s) : i + Len(sub) <= Len(s) /\ SubSeq(s, i + 1, i + Len(sub)) = sub

\* the index of the first separator in s, 0 when there is none
IndexOf(s, c) ==
    IF \E i \in 1..Len(s) : s[i] = c
    THEN CHOOSE i \in 1..Len(s) : s[i] = c /\ \A j \in 1..(i - 1) : s[j] # c
    ELSE 0

\* String.prototype.split("|")
RECURSIVE Split(_)
Split(s) ==
    LET i == IndexOf(s, "|")
    IN  IF i = 0 THEN <<s>>
        ELSE <<SubSeq(s, 1, i - 1)>> \o Split(SubSeq(s, i + 1, Len(s)))

\* key.split("|")[2]: the third segment, undefined when the key has fewer
ThirdSegment(key) ==
    LET parts == Split(key)
    IN  IF Len(parts) >= 3 THEN parts[3] ELSE Undefined

Digits == {"0", "1", "2", "3", "4", "5", "6", "7", "8", "9"}

MessageIdMarker == <<";", "m", "e", "s", "s", "a", "g", "e", "i", "d", "=">>

\* the digits of s from position i on, up to the first non-digit (\d+ is greedy)
RECURSIVE DigitRun(_, _)
DigitRun(s, i) ==
    IF i <= Len(s) /\ s[i] \in Digits THEN <<s[i]>> \o DigitRun(s, i + 1) ELSE <<>>

\* conversation.id.match(/;messageid=(\d+)/): group 1 of the leftmost match,
\* undefined when there is no match
MatchMessageId(s) ==
    LET n == Len(MessageIdMarker)
        hit(i) == /\ i + n <= Len(s)
                  /\ SubSeq(s, i, i + n - 1) = MessageIdMarker
                  /\ s[i + n] \in Digits
    IN  IF \E i \in 1..Len(s) : hit(i)
        THEN LET i == CHOOSE k \in 1..Len(s) : hit(k) /\ \A j \in 1..(k - 1) : ~hit(j)
             IN  DigitRun(s, i + n)
        ELSE Undefined

BotIdPrefix == <<"2", "8", ":">>

\* botId.replace(/^28:/, "")
StripBotPrefix(s) ==
    IF StartsWith(s, BotIdPrefix) THEN SubSeq(s, Len(BotIdPrefix) + 1, Len(s)) ELSE s

\* the characters of the model's strings, in code-unit order
Alphabet ==
    <<"0", "1", "2", "3", "4", "5", "6", "7", "8", "9", ":", ";", "=",
      "S", "T", "a", "b", "c", "d", "e", "g", "i", "l", "m", "n", "p", "r", "s",
      "t", "u", "v", "z", "|">>

CodeUnit(c) == CHOOSE i \in 1..Len(Alphabet) : Alphabet[i] = c

\* s < t in the order of the store's keys (by code unit)
RECURSIVE KeyLess(_, _)
KeyLess(s, t) ==
    IF t = <<>> THEN FALSE
    ELSE IF s = <<>> THEN TRUE
    ELSE IF s[1] # t[1] THEN CodeUnit(s[1]) < CodeUnit(t[1])
    ELSE KeyLess(Tail(s), Tail(t))

\* the keys of a set, as the ordered list the store returns
RECURSIVE SortKeys(_)
SortKeys(K) ==
    IF K = {} THEN <<>>
    ELSE LET k == CHOOSE x \in K : \A y \in K \ {x} : KeyLess(x, y)
         IN  <<k>> \o SortKeys(K \ {k})

\* Array.prototype.filter, keeping the elements that are in the set keep
RECURSIVE FilterIn(_, _)
FilterIn(seq, keep) ==
    IF seq = <<>> THEN <<>>
    ELSE (IF Head(seq) \in keep THEN <<Head(seq)>> ELSE <<>>) \o FilterIn(Tail(seq), keep)

\* the elements of a sequence
Range(seq) == {seq[i] : i \in DOMAIN seq}

----------------------------------------------------------------------------
(* The installation: the app's configuration and the blocks of the flow *)

\* input.app.config.appId, handed to handleBotActivity as the bot's id
AppId == <<"a", "b">>

SendMessageBlocks == {<<"S", "1">>, <<"S", "2">>}
ThreadBlocks == {<<"T", "1">>, <<"T", "2">>}
MentionBlocks == {<<"m", "1">>, <<"m", "2">>}
AllBlocks == SendMessageBlocks \cup ThreadBlocks \cup MentionBlocks

\* the key under which a block type is registered in the app's block dictionary
TypeId(b) ==
    IF b \in SendMessageBlocks THEN "sendMessage"
    ELSE IF b \in ThreadBlocks THEN "threadSubscription"
    ELSE "mentionsSubscription"

\* block.config.channelId of a mentionsSubscription block (optional)
ChannelFilter(b) == IF b = <<"m", "1">> THEN "19:abc" ELSE NoValue

\* blocks of one type are interchangeable: one of each type stands for the
\* blocks the user deletes
Removable == {<<"S", "2">>, <<"T", "2">>, <<"m", "2">>}

\* activity ids the platform returns for a sent message
SentActivityIds == {<<"3">>}
\* conversation ids a flow passes to threadSubscription.subscribe
SubscribedConversationIds == {<<"c">> \o MessageIdMarker \o <<"3">>}

\* text and attachments of the inputConfig of a sendMessage event: a message
\* with a text, and one with nothing in it
MessageContents ==
    {[text |-> "hi", attachments |-> NoValue], [text |-> NoValue, attachments |-> "[]"]}

\* input.event.id of the n-th event whose handler registers a subscription
EventIds == <<"evtA", "evtB", "evtC", "evtD">>

----------------------------------------------------------------------------
(* State *)

VARIABLES
    kvApp,      \* kv.app: the shared scope, key -> value
    kvBlock,    \* kv.block: per block, key -> value
    registry,   \* the blocks that exist (blocks.list)
    exec,       \* the block input execution in progress
    nEvents,    \* block input events that got as far as writing keys
    history,    \* registrations completed, oldest first
    nRemoved,   \* blocks deleted from the flow so far
    act,        \* the inbound activity handleBotActivity is handling
    hpc,        \* the position of handleBotActivity
    subscribedBlockIds, \* local of the running handler
    validBlockIds,      \* local of the running handler
    targetBlockIds,     \* local of the running handler
    sends,      \* the messaging.sendToBlocks calls made for act, in order
    inbox,      \* internal messages sent and not yet handled, oldest first
    emitted,    \* events.emit calls made by blocks for act
    quiet,      \* history: no key written, no block deleted since act arrived
    faults,     \* history: the calls that failed while act was handled
    platform,   \* the bot's messages changed on the platform: id -> last change
    request,    \* the HTTP request http.onRequest is handling
    responses   \* the status codes of the http.respond calls made for it

vars == <<kvApp, kvBlock, registry, exec, nEvents, history, nRemoved, act, hpc,
          subscribedBlockIds, validBlockIds, targetBlockIds, sends, inbox, emitted, quiet,
          faults, platform, request, responses>>

store == <<kvApp, kvBlock>>
locals == <<subscribedBlockIds, validBlockIds, targetBlockIds>>
handler == <<act, hpc, locals, sends>>
outcome == <<emitted, quiet>>
registration == <<exec, nEvents, history>>

Idle == [pc |-> "idle"]

EmptyMap == [k \in {} |-> NoValue]

\* a get that answers with one record of the block whatever the key asked for
KvBlockGetAny(kv, b, key) ==
    IF DOMAIN kv[b] # {} THEN kv[b][CHOOSE k \in DOMAIN kv[b] : TRUE] ELSE NoValue

\* a get that reads the key in the scope of whichever block has it
KvBlockGetShared(kv, b, key) ==
    IF \E c \in DOMAIN kv : key \in DOMAIN kv[c]
    THEN kv[CHOOSE c \in DOMAIN kv : key \in DOMAIN kv[c]][key]
    ELSE NoValue

\* kv.block.get(key).value
KvBlockGet(kv, b, key) == IF key \in DOMAIN kv[b] THEN kv[b][key] ELSE NoValue

\* a set that keeps the value a key already has
KvBlockSetOnce(kv, b, key, value) ==
    IF key \in DOMAIN kv[b] THEN kv ELSE [kv EXCEPT ![b] = (key :> value) @@ @]

\* a set that writes the pair into the scope of every block
KvBlockSetEverywhere(kv, b, key, value) == [c \in DOMAIN kv |-> (key :> value) @@ kv[c]]

\* kv.block.set({key, value}) in block b's scope
KvBlockSet(kv, b, key, value) == [kv EXCEPT ![b] = (key :> value) @@ @]

\* a set that leaves nothing in the scope but the pair it writes
KvAppSetAlone(kv, key, value) == (key :> value)

\* kv.app.set({key, value})
KvAppSet(kv, key, value) == (key :> value) @@ kv

\* kv.app.list({keyPrefix}).pairs
KvAppList(kv, keyPrefix) ==
    LET keys == SortKeys({k \in DOMAIN kv : StartsWith(k, keyPrefix)})
    IN  [i \in DOMAIN keys |-> [key |-> keys[i], value |-> kv[keys[i]]]]

\* blocks.list({typeIds: [typeId]}).blocks
BlocksList(reg, typeId) ==
    LET ids == SortKeys({b \in reg : TypeId(b) = typeId})
    IN  [i \in DOMAIN ids |-> [id |-> ids[i], config |-> [channelId |-> ChannelFilter(ids[i])]]]

----------------------------------------------------------------------------
(* Inbound activities *)

UserId == <<"2", "9", ":", "u">>
BotUserId == BotIdPrefix \o AppId
OtherBotId == BotIdPrefix \o <<"z">>

ThreadConversationId == <<"c">> \o MessageIdMarker \o <<"3">>

Mention(id) == [type |-> "mention", mentioned |-> [id |-> id]]

ReactionTypes == {"like", "heart"}

\* lists of at most n reaction markers
ReactionLists(n) ==
    UNION {[1..k -> [type : ReactionTypes]] : k \in 0..n}

NoActivity == [type |-> NoValue]

\* input.request.path of the Bot Framework endpoint and of the manifest download
MessagesPath == <<"/", "m", "e", "s", "s", "a", "g", "e", "s">>
ManifestPath == <<"/", "m", "a", "n", "i", "f", "e", "s", "t", ".", "z", "i", "p">>

\* what Bot Framework sends in the Authorization header
BearerPrefix == <<"B", "e", "a", "r", "e", "r", " ">>
BearerToken == BearerPrefix \o <<"t">>

\* no request in hand
NoRequest ==
    [path |-> Undefined,
     headers |-> [authorization |-> Undefined, Authorization |-> Undefined],
     body |-> NoActivity]

\* the request with which Bot Framework delivers the activity a
MessagesRequest(a) ==
    [path |-> MessagesPath,
     headers |-> [authorization |-> BearerToken, Authorization |-> Undefined],
     body |-> a]

\* an activity of the given type with every optional field absent
Blank(type) ==
    [type |-> type, id |-> Undefined, replyToId |-> Undefined,
     conversation |-> [id |-> Undefined], from |-> [id |-> Undefined],
     entities |-> <<>>, value |-> NoValue, name |-> NoValue,
     reactionsAdded |-> <<>>, reactionsRemoved |-> <<>>,
     channelData |-> [teamsChannelId |-> NoValue]]

\* messages whose id is the message id of the thread: the thread's root message
\* (no reply target) and activities that name themselves as their reply target
RootMessageActivities ==
    {[Blank("message") EXCEPT
        !.id = <<"3">>, !.replyToId = r, !.conversation = [id |-> c],
        !.from = [id |-> UserId], !.value = v,
        !.channelData = [teamsChannelId |-> "19:xyz"]] :
        r \in {Undefined, <<"3">>},
        c \in {<<"c">>, ThreadConversationId},
        v \in {NoValue, "{approve:true}"}}

MessageActivities ==
    {[Blank("message") EXCEPT
        !.id = <<"5">>, !.replyToId = r, !.conversation = [id |-> c],
        !.from = [id |-> f], !.entities = e, !.value = v,
        !.channelData = [teamsChannelId |-> "19:xyz"]] :
        r \in {Undefined, <<"3">>},
        c \in {<<"c">>, ThreadConversationId},
        f \in {UserId, BotUserId},
        e \in {<<>>, <<Mention(BotUserId)>>},
        v \in {NoValue, "{approve:true}"}}

\* an Action.Submit message that carries a name
NamedActionActivities ==
    {[Blank("message") EXCEPT
        !.id = <<"5">>, !.replyToId = <<"3">>, !.conversation = [id |-> <<"c">>],
        !.from = [id |-> UserId], !.value = "{approve:true}", !.name = "approve",
        !.channelData = [teamsChannelId |-> "19:xyz"]]}

\* a message that mentions the bot, posted in the channel one mention
\* subscription is configured for
ChannelMentionActivities ==
    {[Blank("message") EXCEPT
        !.id = <<"5">>, !.conversation = [id |-> <<"c">>],
        !.from = [id |-> UserId], !.entities = <<Mention(BotUserId)>>,
        !.channelData = [teamsChannelId |-> "19:abc"]]}

\* messages whose only mention is of somebody else: another bot, a user
OtherMentionActivities ==
    {[Blank("message") EXCEPT
        !.id = <<"5">>, !.conversation = [id |-> <<"c">>],
        !.from = [id |-> UserId], !.entities = <<Mention(who)>>,
        !.channelData = [teamsChannelId |-> "19:xyz"]] :
        who \in {OtherBotId, UserId}}

\* a message of the subscribed thread that replies to a later message of it
LaterReplyActivities ==
    {[Blank("message") EXCEPT
        !.id = <<"8">>, !.replyToId = <<"7">>,
        !.conversation = [id |-> ThreadConversationId],
        !.from = [id |-> UserId], !.value = v,
        !.channelData = [teamsChannelId |-> "19:xyz"]] :
        v \in {NoValue, "{approve:true}"}}

ReactionActivities ==
    {[Blank("messageReaction") EXCEPT
        !.id = <<"5">>, !.replyToId = r, !.conversation = [id |-> <<"c">>],
        !.from = [id |-> UserId], !.reactionsAdded = ra, !.reactionsRemoved = rr] :
        r \in {Undefined, <<"3">>},
        ra \in ReactionLists(MaxReactions),
        rr \in ReactionLists(MaxReactions)}

InvokeActivities ==
    {[Blank("invoke") EXCEPT
        !.id = <<"5">>, !.replyToId = r, !.conversation = [id |-> <<"c">>],
        !.from = [id |-> UserId], !.value = v, !.name = "approve"] :
        r \in {Undefined, <<"3">>},
        v \in {NoValue, "{approve:true}"}}

\* activities of other types; one carries what would make a message a reply
OtherActivities ==
    {Blank("conversationUpdate"), Blank("typing"),
     [Blank("conversationUpdate") EXCEPT
        !.id = <<"5">>, !.replyToId = <<"3">>,
        !.conversation = [id |-> ThreadConversationId],
        !.from = [id |-> UserId], !.entities = <<Mention(BotUserId)>>]}

Activities ==
    MessageActivities \cup RootMessageActivities \cup NamedActionActivities
    \cup ChannelMentionActivities \cup OtherMentionActivities \cup LaterReplyActivities
    \cup {a \in ReactionActivities :
            Len(a.reactionsAdded) + Len(a.reactionsRemoved)
                <= IF Truthy(a.replyToId) THEN MaxReactions ELSE 1}
    \cup InvokeActivities \cup OtherActivities

----------------------------------------------------------------------------
(* Initial state: an installed app, nothing sent or subscribed yet *)

Init ==
    /\ kvApp = EmptyMap
    /\ kvBlock = [b \in AllBlocks |-> EmptyMap]
    /\ registry = AllBlocks
    /\ exec = Idle
    /\ nEvents = 0
    /\ history = <<>>
    /\ nRemoved = 0
    /\ act = NoActivity
    /\ hpc = "idle"
    /\ subscribedBlockIds = <<>>
    /\ validBlockIds = <<>>
    /\ targetBlockIds = <<>>
    /\ sends = <<>>
    /\ inbox = <<>>
    /\ emitted = EmptyBag
    /\ quiet = TRUE
    /\ faults = {}
    /\ platform = EmptyMap
    /\ request = NoRequest
    /\ responses = <<>>

----------------------------------------------------------------------------
(* The flow's user deletes a block: it leaves the registry, and the host   *)
(* no longer delivers internal messages to it.  Its keys stay in the store.*)

\* the queue of internal messages without those addressed to block b
RECURSIVE Undelivered(_, _)
Undelivered(box, b) ==
    IF box = <<>> THEN <<>>
    ELSE (IF Head(box).to = b THEN <<>> ELSE <<Head(box)>>) \o Undelivered(Tail(box), b)

RemoveBlock(b) ==
    /\ nRemoved < MaxRemovals
    /\ b \in registry
    /\ IF exec.pc = "idle" THEN TRUE ELSE exec.block # b
    /\ registry' = registry \ {b}
    /\ nRemoved' = nRemoved + 1
    /\ inbox' = Undelivered(inbox, b)
    /\ quiet' = (hpc = "idle")
    /\ UNCHANGED <<request, responses, platform, faults, store, registration, handler, emitted>>

----------------------------------------------------------------------------
(* sendMessage.inputs.default.onEvent *)

\* line 99: `events|${result.activityId}|${input.block.id}`
EventsKey(activityId, blockId) ==
    <<"e", "v", "e", "n", "t", "s", "|">> \o activityId \o <<"|">> \o blockId

\* `!text && (!attachments || attachments.length === 0)`
NoContent(text, attachments) ==
    ~TruthyValue(text) /\ (~TruthyValue(attachments) \/ attachments = "[]")

NoError == "none"

\* the token requested before the content is looked at
SendMessageCallsTokenFirst(text, attachments, granted, sent) ==
    IF ~granted
    THEN [error |-> "Failed to get bot token", calls |-> <<"getBotAccessToken">>]
    ELSE IF NoContent(text, attachments)
    THEN [error |-> "Message must have either text content or adaptive cards",
          calls |-> <<"getBotAccessToken">>]
    ELSE IF ~sent
    THEN [error |-> "Failed to send message",
          calls |-> <<"getBotAccessToken", "sendMessageToChannel">>]
    ELSE [error |-> NoError, calls |-> <<"getBotAccessToken", "sendMessageToChannel">>]

\* lines 59-94: the calls onEvent makes to the outside before it stores
\* anything, and the error that ends it, if any
SendMessageCalls(text, attachments, granted, sent) ==
    IF NoContent(text, attachments)
    THEN [error |-> "Message must have either text content or adaptive cards",
          calls |-> <<>>]
    ELSE IF ~granted
    THEN [error |-> "Failed to get bot token", calls |-> <<"getBotAccessToken">>]
    ELSE IF ~sent
    THEN [error |-> "Failed to send message",
          calls |-> <<"getBotAccessToken", "sendMessageToChannel">>]
    ELSE [error |-> NoError, calls |-> <<"getBotAccessToken", "sendMessageToChannel">>]

\* lines 53-96: validation, access token, the platform call, the event's id
SendMessageOnEvent(b, text, attachments, granted, sent, activityId) ==
    /\ exec.pc = "idle"
    /\ nEvents < MaxEvents
    /\ b \in registry /\ TypeId(b) = "sendMessage"
    /\ LET made == SendMessageCalls(text, attachments, granted, sent)
       IN  IF made.error # NoError
           THEN /\ exec' = [pc |-> "threw", block |-> b, typeId |-> "sendMessage",
                            text |-> text, attachments |-> attachments,
                            error |-> made.error, calls |-> made.calls]
                /\ UNCHANGED nEvents
           ELSE /\ nEvents' = nEvents + 1
                /\ exec' = [pc |-> "store", block |-> b, key |-> activityId,
                            eventId |-> EventIds[nEvents + 1],
                            appKey |-> EventsKey(activityId, b),
                            pending |-> {"block", "app"}, calls |-> made.calls]
    /\ UNCHANGED <<request, responses, platform, faults, store, registry, history, nRemoved, handler, inbox, outcome>>

\* the exception leaves onEvent: the execution is over
OnEventThrows ==
    /\ exec.pc = "threw"
    /\ exec' = Idle
    /\ UNCHANGED <<request, responses, platform, faults, store, registry, nEvents, history, nRemoved, handler, inbox, outcome>>

\* line 101, one branch of the Promise.all
SendMessageStoreBlock ==
    /\ exec.pc = "store" /\ TypeId(exec.block) = "sendMessage"
    /\ "block" \in exec.pending
    /\ kvBlock' = KvBlockSet(kvBlock, exec.block, exec.key, exec.eventId)
    /\ exec' = [exec EXCEPT !.pending = @ \ {"block"}]
    /\ quiet' = (hpc = "idle")
    /\ UNCHANGED <<request, responses, platform, faults, kvApp, registry, nEvents, history, nRemoved, handler, inbox, emitted>>

\* line 102, the other branch of the Promise.all
SendMessageStoreApp ==
    /\ exec.pc = "store" /\ TypeId(exec.block) = "sendMessage"
    /\ "app" \in exec.pending
    /\ kvApp' = KvAppSet(kvApp, exec.appKey, TRUE)
    /\ exec' = [exec EXCEPT !.pending = @ \ {"app"}]
    /\ quiet' = (hpc = "idle")
    /\ UNCHANGED <<request, responses, platform, faults, kvBlock, registry, nEvents, history, nRemoved, handler, inbox, emitted>>

\* a Promise.all that resolves as soon as one of the writes is done
AwaitedAny(pending) == pending # {"block", "app"}

\* line 100: `await Promise.all([...])` has resolved: no write is pending
Awaited(pending) == pending = {}

\* lines 105-110: both writes are done, the "Message Sent" event is emitted
SendMessageEmit ==
    /\ exec.pc = "store" /\ TypeId(exec.block) = "sendMessage"
    /\ Awaited(exec.pending)
    /\ exec' = Idle
    /\ history' = Append(history, [block |-> exec.block, key |-> exec.key,
                                   eventId |-> exec.eventId])
    /\ UNCHANGED <<request, responses, platform, faults, store, registry, nEvents, nRemoved, handler, inbox, outcome>>

----------------------------------------------------------------------------
(* subscribeToReplies.inputs.subscribe.onEvent (block type threadSubscription) *)

\* a key that also carries which event registered it
RepliesKeyPerEvent(conversationId, blockId) ==
    <<"r", "e", "p", "l", "i", "e", "s", "|">> \o conversationId \o <<"|">> \o blockId
        \o <<"|", Alphabet[nEvents + 1]>>

\* line 26: `replies|${conversationId}|${input.block.id}`
RepliesKey(conversationId, blockId) ==
    <<"r", "e", "p", "l", "i", "e", "s", "|">> \o conversationId \o <<"|">> \o blockId

\* lines 24-26
SubscribeOnEvent(b, conversationId) ==
    /\ exec.pc = "idle"
    /\ nEvents < MaxEvents
    /\ b \in registry /\ TypeId(b) = "threadSubscription"
    /\ nEvents' = nEvents + 1
    /\ exec' = [pc |-> "store", block |-> b, key |-> conversationId,
                eventId |-> EventIds[nEvents + 1],
                appKey |-> RepliesKey(conversationId, b),
                pending |-> {"block", "app"}, calls |-> <<>>]
    /\ UNCHANGED <<request, responses, platform, faults, store, registry, history, nRemoved, handler, inbox, outcome>>

\* line 29, one branch of the Promise.all
SubscribeStoreBlock ==
    /\ exec.pc = "store" /\ TypeId(exec.block) = "threadSubscription"
    /\ "block" \in exec.pending
    /\ kvBlock' = KvBlockSet(kvBlock, exec.block, exec.key, exec.eventId)
    /\ exec' = [exec EXCEPT !.pending = @ \ {"block"}]
    /\ quiet' = (hpc = "idle")
    /\ UNCHANGED <<request, responses, platform, faults, kvApp, registry, nEvents, history, nRemoved, handler, inbox, emitted>>

\* line 30, the other branch of the Promise.all
SubscribeStoreApp ==
    /\ exec.pc = "store" /\ TypeId(exec.block) = "threadSubscription"
    /\ "app" \in exec.pending
    /\ kvApp' = KvAppSet(kvApp, exec.appKey, TRUE)
    /\ exec' = [exec EXCEPT !.pending = @ \ {"app"}]
    /\ quiet' = (hpc = "idle")
    /\ UNCHANGED <<request, responses, platform, faults, kvBlock, registry, nEvents, history, nRemoved, handler, inbox, emitted>>

\* line 32: both writes are done, the handler returns
SubscribeReturn ==
    /\ exec.pc = "store" /\ TypeId(exec.block) = "threadSubscription"
    /\ Awaited(exec.pending)
    /\ exec' = Idle
    /\ history' = Append(history, [block |-> exec.block, key |-> exec.key,
                                   eventId |-> exec.eventId])
    /\ UNCHANGED <<request, responses, platform, faults, store, registry, nEvents, nRemoved, handler, inbox, outcome>>

----------------------------------------------------------------------------
(* messaging.sendToBlocks and the handlers' shared steps *)

\* a sendToBlocks that hands the message to the first listed block only
SendToBlocksFirst(box, blockIds, body, reg) ==
    IF blockIds # <<>> /\ Head(blockIds) \in reg
    THEN Append(box, [to |-> Head(blockIds), body |-> body])
    ELSE box

\* messaging.sendToBlocks({blockIds, body}): one internal message per listed id,
\* in the order listed, for the ids that name a block of the flow
RECURSIVE SendToBlocks(_, _, _, _)
SendToBlocks(box, blockIds, body, reg) ==
    IF blockIds = <<>> THEN box
    ELSE SendToBlocks(IF Head(blockIds) \in reg
                      THEN Append(box, [to |-> Head(blockIds), body |-> body])
                      ELSE box,
                      Tail(blockIds), body, reg)

\* the prefix of the replies namespace used for the events lookups too
EventsPrefixOfReplies(anchor) ==
    <<"r", "e", "p", "l", "i", "e", "s", "|">> \o anchor \o <<"|">>

\* `events|${replyToId}|`
EventsPrefix(anchor) == <<"e", "v", "e", "n", "t", "s", "|">> \o anchor \o <<"|">>
\* the replies prefix built over the reply target instead of the anchor
RepliesPrefixOfTarget(anchor) ==
    <<"r", "e", "p", "l", "i", "e", "s", "|">> \o act.replyToId \o <<"|">>

RepliesPrefix(anchor) == <<"r", "e", "p", "l", "i", "e", "s", "|">> \o anchor \o <<"|">>

\* (await kv.app.list({keyPrefix: prefix})).pairs.map(({key}) => key.split("|")[2])
Lookup(kv, prefix) ==
    LET pairs == KvAppList(kv, prefix)
    IN  [i \in DOMAIN pairs |-> ThirdSegment(pairs[i].key)]

\* the filter run against the blocks the flow had when the app was installed
ExistingOfInstalled(reg, subscribed, typeId) ==
    FilterIn(subscribed, {b \in AllBlocks : TypeId(b) = typeId})

\* the subscribed ids taken as they are, without the blocks.list filter
ExistingOfUnfiltered(reg, subscribed, typeId) == subscribed

\* subscribedBlockIds.filter((id) => existingBlockIds.has(id)), with
\* existingBlockIds the ids of blocks.list({typeIds: [typeId]})
ExistingOf(reg, subscribed, typeId) ==
    LET listed == BlocksList(reg, typeId)
        existingBlockIds == {listed[i].id : i \in DOMAIN listed}
    IN  FilterIn(subscribed, existingBlockIds)

----------------------------------------------------------------------------
(* handleMessageActivity *)

\* lines 71-75
BotMentioned(a) ==
    \E i \in DOMAIN a.entities :
        /\ a.entities[i].type = "mention"
        /\ a.entities[i].mentioned.id # Undefined
        /\ Includes(a.entities[i].mentioned.id, BotIdPrefix)

\* the reply target with the parsed id preferred to the explicit field
ReplyToIdParsedFirst(a) ==
    IF Truthy(a.conversation.id) /\ Truthy(a.id)
    THEN LET messageId == MatchMessageId(a.conversation.id)
         IN  IF messageId # Undefined /\ messageId # a.id THEN messageId
             ELSE a.replyToId
    ELSE a.replyToId

\* the reply target derived without comparing the parsed id to the activity's
ReplyToIdUnguarded(a) ==
    IF ~Truthy(a.replyToId) /\ Truthy(a.conversation.id) /\ Truthy(a.id)
    THEN LET messageId == MatchMessageId(a.conversation.id)
         IN  IF messageId # Undefined THEN messageId ELSE a.replyToId
    ELSE a.replyToId

\* lines 115-128: the explicit reply target, else the one in the conversation id
ReplyToId(a) ==
    IF ~Truthy(a.replyToId) /\ Truthy(a.conversation.id) /\ Truthy(a.id)
    THEN LET messageId == MatchMessageId(a.conversation.id)
         IN  IF messageId # Undefined /\ messageId # a.id THEN messageId
             ELSE a.replyToId
    ELSE a.replyToId

\* the sender compared to the stripped bot id for equality
IsFromBotExact(a, botId) ==
    /\ Truthy(a.from.id)
    /\ a.from.id = StripBotPrefix(botId)

\* lines 132-134
IsFromBot(a, botId) ==
    /\ Truthy(a.from.id)
    /\ Includes(a.from.id, StripBotPrefix(botId))

\* the routing without the Action.Submit branch
MessageRouteRepliesOnly(a, botId) ==
    IF ~Truthy(ReplyToId(a)) THEN "done"
    ELSE IF IsFromBot(a, botId) THEN "done"
    ELSE IF ~Truthy(a.conversation.id) THEN "done"
    ELSE "replyLookup"

\* lines 113-183: where the handler goes after the mention part
MessageRoute(a, botId) ==
    IF ~Truthy(ReplyToId(a)) THEN "done"
    ELSE IF IsFromBot(a, botId) THEN "done"
    ELSE IF TruthyValue(a.value) THEN "actionLookup"
    ELSE IF ~Truthy(a.conversation.id) THEN "done"
    ELSE "replyLookup"

\* a filter that lets every block through
MatchesChannelAlways(filterChannelId, mentionChannelId) == TRUE

\* lines 89-92: !filterChannelId || filterChannelId === mentionChannelId
MatchesChannel(filterChannelId, mentionChannelId) ==
    \/ ~TruthyValue(filterChannelId)
    \/ filterChannelId = mentionChannelId

\* lines 79-95
MentionListBlocks ==
    /\ hpc = "mentionList"
    /\ LET mentionBlocks == BlocksList(registry, "mentionsSubscription")
           mentionChannelId == act.channelData.teamsChannelId
           keep == {mentionBlocks[i].id : i \in
                      {j \in DOMAIN mentionBlocks :
                         MatchesChannel(mentionBlocks[j].config.channelId,
                                        mentionChannelId)}}
           targets == FilterIn([i \in DOMAIN mentionBlocks |-> mentionBlocks[i].id], keep)
       IN  /\ targetBlockIds' = targets
           /\ hpc' = IF Len(mentionBlocks) > 0 /\ Len(targets) > 0
                     THEN "mentionSend" ELSE MessageRoute(act, AppId)
    /\ UNCHANGED <<request, responses, platform, faults, store, registry, registration, nRemoved, act, subscribedBlockIds,
                   validBlockIds, sends, inbox, outcome>>

MentionBody(a) ==
    [type |-> "mention", activity |-> a, from |-> a.from,
     conversation |-> a.conversation, channelData |-> a.channelData]

\* lines 96-109
MentionSend ==
    /\ hpc = "mentionSend"
    /\ sends' = Append(sends, [blockIds |-> targetBlockIds, body |-> MentionBody(act)])
    /\ inbox' = SendToBlocks(inbox, targetBlockIds, MentionBody(act), registry)
    /\ hpc' = MessageRoute(act, AppId)
    /\ UNCHANGED <<request, responses, platform, faults, store, registry, registration, nRemoved, act, locals, outcome>>

\* the Action.Submit branch without its return: the reply part runs too
AfterActionFallsThrough(a) == "replyLookup"

\* line 176: the Action.Submit branch returns, the reply part is not run
AfterAction(a) == "done"

\* lines 144-149
ActionLookup ==
    /\ hpc = "actionLookup"
    /\ subscribedBlockIds' = Lookup(kvApp, EventsPrefix(ReplyToId(act)))
    /\ hpc' = IF Len(subscribedBlockIds') > 0 THEN "actionList" ELSE AfterAction(act)
    /\ UNCHANGED <<request, responses, platform, faults, store, registry, registration, nRemoved, act, validBlockIds,
                   targetBlockIds, sends, inbox, outcome>>

\* lines 150-160
ActionListBlocks ==
    /\ hpc = "actionList"
    /\ validBlockIds' = ExistingOf(registry, subscribedBlockIds, "sendMessage")
    /\ hpc' = IF Len(validBlockIds') > 0 THEN "actionSend" ELSE AfterAction(act)
    /\ UNCHANGED <<request, responses, platform, faults, store, registry, registration, nRemoved, act, subscribedBlockIds,
                   targetBlockIds, sends, inbox, outcome>>

\* the action body with a fixed action id
ActionBodySubmitOnly(a) ==
    [type |-> "action", actionId |-> "submit",
     actionData |-> a.value, activity |-> a, from |-> a.from,
     activityId |-> ReplyToId(a), conversationId |-> a.conversation.id]

ActionBody(a) ==
    [type |-> "action",
     actionId |-> IF TruthyValue(a.name) THEN a.name ELSE "submit",
     actionData |-> a.value, activity |-> a, from |-> a.from,
     activityId |-> ReplyToId(a), conversationId |-> a.conversation.id]

\* lines 161-176
ActionSend ==
    /\ hpc = "actionSend"
    /\ sends' = Append(sends, [blockIds |-> validBlockIds, body |-> ActionBody(act)])
    /\ inbox' = SendToBlocks(inbox, validBlockIds, ActionBody(act), registry)
    /\ hpc' = AfterAction(act)
    /\ UNCHANGED <<request, responses, platform, faults, store, registry, registration, nRemoved, act, locals, outcome>>

\* lines 185-190
ReplyLookup ==
    /\ hpc = "replyLookup"
    /\ subscribedBlockIds' = Lookup(kvApp, RepliesPrefix(act.conversation.id))
    /\ hpc' = IF Len(subscribedBlockIds') > 0 THEN "replyList" ELSE "done"
    /\ UNCHANGED <<request, responses, platform, faults, store, registry, registration, nRemoved, act, validBlockIds,
                   targetBlockIds, sends, inbox, outcome>>

\* lines 192-202
ReplyListBlocks ==
    /\ hpc = "replyList"
    /\ validBlockIds' = ExistingOf(registry, subscribedBlockIds, "threadSubscription")
    /\ hpc' = IF Len(validBlockIds') > 0 THEN "replySend" ELSE "done"
    /\ UNCHANGED <<request, responses, platform, faults, store, registry, registration, nRemoved, act, subscribedBlockIds,
                   targetBlockIds, sends, inbox, outcome>>

ReplyBody(a) ==
    [type |-> "reply", activity |-> a, from |-> a.from, replyToId |-> ReplyToId(a),
     conversationId |-> a.conversation.id, conversation |-> a.conversation,
     channelData |-> a.channelData]

\* lines 203-216
ReplySend ==
    /\ hpc = "replySend"
    /\ sends' = Append(sends, [blockIds |-> validBlockIds, body |-> ReplyBody(act)])
    /\ inbox' = SendToBlocks(inbox, validBlockIds, ReplyBody(act), registry)
    /\ hpc' = "done"
    /\ UNCHANGED <<request, responses, platform, faults, store, registry, registration, nRemoved, act, locals, outcome>>

----------------------------------------------------------------------------
(* handleReactionActivity *)

\* the lookup going on to the listing whatever it found
ReactionLookupAlwaysLists ==
    /\ hpc = "reactionLookup"
    /\ subscribedBlockIds' = Lookup(kvApp, EventsPrefix(act.replyToId))
    /\ hpc' = "reactionList"
    /\ UNCHANGED <<request, responses, platform, faults, store, registry, registration, nRemoved, act, validBlockIds,
                   targetBlockIds, sends, inbox, outcome>>

\* lines 235-242
ReactionLookup ==
    /\ hpc = "reactionLookup"
    /\ subscribedBlockIds' = Lookup(kvApp, EventsPrefix(act.replyToId))
    /\ hpc' = IF Len(subscribedBlockIds') = 0 THEN "done" ELSE "reactionList"
    /\ UNCHANGED <<request, responses, platform, faults, store, registry, registration, nRemoved, act, validBlockIds,
                   targetBlockIds, sends, inbox, outcome>>

\* the loops ending with the added markers
ReactionLoopAddedOnly(a, n) ==
    IF n < Len(a.reactionsAdded) THEN "reactionSend" ELSE "done"

\* where the two loops of lines 260-293 stand after n sends
ReactionLoop(a, n) ==
    IF n < Len(a.reactionsAdded) + Len(a.reactionsRemoved) THEN "reactionSend" ELSE "done"

\* the loops in the other order: the removed markers, then the added ones
ReactionAtRemovedFirst(a, n) ==
    IF n < Len(a.reactionsRemoved)
    THEN [action |-> "remove", reaction |-> a.reactionsRemoved[n + 1]]
    ELSE [action |-> "add", reaction |-> a.reactionsAdded[n - Len(a.reactionsRemoved) + 1]]

\* the iteration the two loops run after n sends: the added markers in their
\* order, then the removed markers in theirs
ReactionAt(a, n) ==
    IF n < Len(a.reactionsAdded)
    THEN [action |-> "add", reaction |-> a.reactionsAdded[n + 1]]
    ELSE [action |-> "remove", reaction |-> a.reactionsRemoved[n - Len(a.reactionsAdded) + 1]]

\* lines 245-257
ReactionListBlocks ==
    /\ hpc = "reactionList"
    /\ validBlockIds' = ExistingOf(registry, subscribedBlockIds, "sendMessage")
    /\ hpc' = IF Len(validBlockIds') = 0 THEN "done" ELSE ReactionLoop(act, 0)
    /\ UNCHANGED <<request, responses, platform, faults, store, registry, registration, nRemoved, act, subscribedBlockIds,
                   targetBlockIds, sends, inbox, outcome>>

ReactionBody(a, action, reaction) ==
    [type |-> "reaction", action |-> action, reactionType |-> reaction.type,
     activity |-> a, from |-> a.from, activityId |-> a.replyToId,
     conversationId |-> a.conversation.id, channelData |-> a.channelData]

\* lines 260-275, one iteration
ReactionSendAdded ==
    /\ hpc = "reactionSend"
    /\ ReactionAt(act, Len(sends)).action = "add"
    /\ LET body == ReactionBody(act, "add", ReactionAt(act, Len(sends)).reaction)
       IN  /\ sends' = Append(sends, [blockIds |-> validBlockIds, body |-> body])
           /\ inbox' = SendToBlocks(inbox, validBlockIds, body, registry)
    /\ hpc' = ReactionLoop(act, Len(sends) + 1)
    /\ UNCHANGED <<request, responses, platform, faults, store, registry, registration, nRemoved, act, locals, outcome>>

\* lines 278-293, one iteration
ReactionSendRemoved ==
    /\ hpc = "reactionSend"
    /\ ReactionAt(act, Len(sends)).action = "remove"
    /\ LET body == ReactionBody(act, "remove", ReactionAt(act, Len(sends)).reaction)
       IN  /\ sends' = Append(sends, [blockIds |-> validBlockIds, body |-> body])
           /\ inbox' = SendToBlocks(inbox, validBlockIds, body, registry)
    /\ hpc' = ReactionLoop(act, Len(sends) + 1)
    /\ UNCHANGED <<request, responses, platform, faults, store, registry, registration, nRemoved, act, locals, outcome>>

----------------------------------------------------------------------------
(* handleInvokeActivity *)

\* lines 307-314
InvokeLookup ==
    /\ hpc = "invokeLookup"
    /\ subscribedBlockIds' = Lookup(kvApp, EventsPrefix(act.replyToId))
    /\ hpc' = IF Len(subscribedBlockIds') = 0 THEN "done" ELSE "invokeList"
    /\ UNCHANGED <<request, responses, platform, faults, store, registry, registration, nRemoved, act, validBlockIds,
                   targetBlockIds, sends, inbox, outcome>>

\* lines 317-329
InvokeListBlocks ==
    /\ hpc = "invokeList"
    /\ validBlockIds' = ExistingOf(registry, subscribedBlockIds, "sendMessage")
    /\ hpc' = IF Len(validBlockIds') = 0 THEN "done" ELSE "invokeSend"
    /\ UNCHANGED <<request, responses, platform, faults, store, registry, registration, nRemoved, act, subscribedBlockIds,
                   targetBlockIds, sends, inbox, outcome>>

InvokeBody(a) ==
    [type |-> "action", actionId |-> a.name,
     actionData |-> IF TruthyValue(a.value) THEN a.value ELSE "{}",
     activity |-> a, from |-> a.from, activityId |-> a.replyToId,
     conversationId |-> a.conversation.id]

\* lines 332-346
InvokeSend ==
    /\ hpc = "invokeSend"
    /\ sends' = Append(sends, [blockIds |-> validBlockIds, body |-> InvokeBody(act)])
    /\ inbox' = SendToBlocks(inbox, validBlockIds, InvokeBody(act), registry)
    /\ hpc' = "done"
    /\ UNCHANGED <<request, responses, platform, faults, store, registry, registration, nRemoved, act, locals, outcome>>

----------------------------------------------------------------------------
(* handleBotActivity: the switch on the activity's type.  One activity is   *)
(* followed at a time: sends and emitted record what was done for it, and  *)
(* the record is dropped once the handler has returned and the internal    *)
(* messages it sent have been consumed.                                    *)

\* the switch with the message handler as its default case
HandlerEntryDefaultMessage(a) ==
    IF a.type = "messageReaction"
    THEN IF ~Truthy(a.replyToId) THEN "done" ELSE "reactionLookup"
    ELSE IF a.type = "invoke"
    THEN IF ~Truthy(a.replyToId) THEN "done" ELSE "invokeLookup"
    ELSE IF BotMentioned(a) THEN "mentionList" ELSE MessageRoute(a, AppId)

\* the switch with the reaction and invoke handlers not testing the reply target
HandlerEntryNoTargetCheck(a) ==
    IF a.type = "message"
    THEN IF BotMentioned(a) THEN "mentionList" ELSE MessageRoute(a, AppId)
    ELSE IF a.type = "messageReaction" THEN "reactionLookup"
    ELSE IF a.type = "invoke" THEN "invokeLookup"
    ELSE "done"

HandlerEntry(a) ==
    IF a.type = "message"
    THEN IF BotMentioned(a) THEN "mentionList" ELSE MessageRoute(a, AppId)
    ELSE IF a.type = "messageReaction"
    THEN IF ~Truthy(a.replyToId) THEN "done" ELSE "reactionLookup"
    ELSE IF a.type = "invoke"
    THEN IF ~Truthy(a.replyToId) THEN "done" ELSE "invokeLookup"
    ELSE "done"

\* the exception caught and dropped: the handler returns normally
PropagateCaught(call) == "done"

\* the exception leaves handleBotActivity and http.onRequest
Propagate(call) == "failed"

\* String.prototype.endsWith
EndsWith(s, suffix) ==
    Len(s) >= Len(suffix) /\ SubSeq(s, Len(s) - Len(suffix) + 1, Len(s)) = suffix

\* part_004 line 163
IsMessagesPath(path) == path = MessagesPath \/ EndsWith(path, MessagesPath)

\* part_004 lines 206-209
IsManifestPath(path) == path = ManifestPath \/ EndsWith(path, ManifestPath)

\* part_004 lines 168-170: headers["authorization"] || headers["Authorization"]
AuthHeader(headers) ==
    IF Truthy(headers.authorization) THEN headers.authorization ELSE headers.Authorization

\* a verification that accepts every header
VerifyBotFrameworkRequestAny(authHeader) == TRUE

\* botHandler.ts lines 9-29: authHeader.startsWith("Bearer "), nothing else
VerifyBotFrameworkRequest(authHeader) == StartsWith(authHeader, BearerPrefix)

\* part_004 lines 159-323: the branch http.onRequest takes for request r
RouteOf(r) ==
    IF IsMessagesPath(r.path)
    THEN IF ~Truthy(AuthHeader(r.headers)) THEN "401"
         ELSE IF ~VerifyBotFrameworkRequest(AuthHeader(r.headers)) THEN "403"
         ELSE "activity"
    ELSE IF IsManifestPath(r.path) THEN "manifest"
    ELSE "404"

\* part_004 lines 159-196 and 205-322: http.onRequest up to the call of
\* handleBotActivity and its first step, or up to the response of the other
\* branches; fetched tells whether the icons of the manifest were downloaded
OnRequest(r, fetched) ==
    /\ hpc = "idle"
    /\ request' = r
    /\ LET route == RouteOf(r)
       IN  IF route = "activity"
           THEN /\ act' = r.body
                /\ hpc' = HandlerEntry(r.body)
                /\ responses' = <<>>
           ELSE IF route = "manifest"
           THEN /\ act' = NoActivity
                /\ hpc' = IF fetched THEN "responded" ELSE Propagate("fetch")
                /\ responses' = IF fetched THEN <<200>> ELSE <<>>
           ELSE /\ act' = NoActivity
                /\ hpc' = "responded"
                /\ responses' = IF route = "401" THEN <<401>>
                                 ELSE IF route = "403" THEN <<403>> ELSE <<404>>
    /\ quiet' = TRUE
    /\ UNCHANGED <<platform, faults, store, registry, registration, nRemoved, locals, sends,
                   inbox, emitted>>

\* a request of Bot Framework with the activity a in its body
HandleBotActivity(a) == OnRequest(MessagesRequest(a), TRUE)

\* handleBotActivity has returned to http.onRequest
Returned == hpc \in {"done", "responded"}

\* a handler that answers the request twice
OnRequestRespondTwice ==
    /\ hpc = "done"
    /\ hpc' = "responded"
    /\ responses' = responses \o <<200, 200>>
    /\ UNCHANGED <<request, platform, faults, store, registry, registration, nRemoved, act,
                   locals, sends, inbox, outcome>>

\* http.onRequest, after handleBotActivity: the request is answered 200 OK
OnRequestRespond ==
    /\ hpc = "done"
    /\ hpc' = "responded"
    /\ responses' = Append(responses, 200)
    /\ UNCHANGED <<request, platform, faults, store, registry, registration, nRemoved, act, locals, sends, inbox, outcome>>

\* the request is over (answered, or ended by an exception) and nothing of
\* the activity is left in flight
HandleBotActivityReturn ==
    /\ hpc \in {"responded", "failed"}
    /\ inbox = <<>>
    /\ act' = NoActivity
    /\ hpc' = "idle"
    /\ subscribedBlockIds' = <<>>
    /\ validBlockIds' = <<>>
    /\ targetBlockIds' = <<>>
    /\ sends' = <<>>
    /\ emitted' = EmptyBag
    /\ quiet' = TRUE
    /\ faults' = {}
    /\ request' = NoRequest
    /\ responses' = <<>>
    /\ UNCHANGED <<platform, store, registry, registration, nRemoved, inbox>>

----------------------------------------------------------------------------
(* The blocks' onInternalMessage handlers *)

(* The host hands the internal messages to the blocks' handlers one at a   *)
(* time, in the order they were sent.                                      *)

\* the handler going on whatever kv.block.get returned
HasParentAlways(parentEventId) == TRUE

\* `if (!parentEventId) return`
HasParent(parentEventId) == TruthyValue(parentEventId)

Common(data) ==
    [type |-> data.type, userId |-> data.from.id, activityId |-> data.activityId,
     conversationId |-> data.conversationId]

\* sendMessage.onInternalMessage
SendMessageOnInternalMessage(m) ==
    /\ inbox # <<>> /\ m = Head(inbox) /\ TypeId(m.to) = "sendMessage"
    /\ inbox' = Tail(inbox)
    /\ LET data == m.body
           parentEventId == KvBlockGet(kvBlock, m.to, data.activityId)
       IN  IF ~HasParent(parentEventId) THEN emitted' = emitted
           ELSE IF data.type = "reaction"
           THEN emitted' = emitted (+) SetToBag({
                    [block |-> m.to, parentEventId |-> parentEventId,
                     outputKey |-> "events",
                     event |-> [reactionType |-> data.reactionType,
                                action |-> data.action,
                                common |-> Common(data)]]})
           ELSE IF data.type = "action"
           THEN emitted' = emitted (+) SetToBag({
                    [block |-> m.to, parentEventId |-> parentEventId,
                     outputKey |-> "events",
                     event |-> [actionId |-> data.actionId,
                                actionData |-> data.actionData,
                                common |-> Common(data)]]})
           ELSE emitted' = emitted
    /\ UNCHANGED <<request, responses, platform, faults, store, registry, registration, nRemoved, handler, quiet>>

\* subscribeToReplies.onInternalMessage
SubscribeOnInternalMessage(m) ==
    /\ inbox # <<>> /\ m = Head(inbox) /\ TypeId(m.to) = "threadSubscription"
    /\ inbox' = Tail(inbox)
    /\ LET replyData == m.body
           parentEventId == KvBlockGet(kvBlock, m.to, replyData.conversationId)
       IN  IF ~HasParent(parentEventId) THEN emitted' = emitted
           ELSE emitted' = emitted (+) SetToBag({
                    [block |-> m.to, parentEventId |-> parentEventId,
                     outputKey |-> "default",
                     event |-> [userId |-> replyData.from.id,
                                activityId |-> replyData.activity.id]]})
    /\ UNCHANGED <<request, responses, platform, faults, store, registry, registration, nRemoved, handler, quiet>>

\* mentionsSubscription.onInternalMessage
MentionsOnInternalMessage(m) ==
    /\ inbox # <<>> /\ m = Head(inbox) /\ TypeId(m.to) = "mentionsSubscription"
    /\ inbox' = Tail(inbox)
    /\ LET mentionData == m.body
       IN  emitted' = emitted (+) SetToBag({
               [block |-> m.to, parentEventId |-> NoValue, outputKey |-> "default",
                event |-> [activityId |-> mentionData.activity.id,
                           channelId |-> mentionData.channelData.teamsChannelId,
                           conversationId |-> mentionData.conversation.id,
                           from |-> mentionData.from]]})
    /\ UNCHANGED <<request, responses, platform, faults, store, registry, registration, nRemoved, handler, quiet>>

----------------------------------------------------------------------------
(* The system *)

Messages == Range(inbox)

NextOver(activities, sentIds, conversationIds, contents) ==
    \/ \E a \in activities : HandleBotActivity(a)
    \/ OnRequestRespond
    \/ HandleBotActivityReturn
    \/ MentionListBlocks
    \/ MentionSend
    \/ ActionLookup
    \/ ActionListBlocks
    \/ ActionSend
    \/ ReplyLookup
    \/ ReplyListBlocks
    \/ ReplySend
    \/ ReactionLookup
    \/ ReactionListBlocks
    \/ ReactionSendAdded
    \/ ReactionSendRemoved
    \/ InvokeLookup
    \/ InvokeListBlocks
    \/ InvokeSend
    \/ \E m \in Messages : SendMessageOnInternalMessage(m)
    \/ \E m \in Messages : SubscribeOnInternalMessage(m)
    \/ \E m \in Messages : MentionsOnInternalMessage(m)
    \/ \E b \in SendMessageBlocks, content \in contents,
          granted \in BOOLEAN, sent \in BOOLEAN, activityId \in sentIds :
          SendMessageOnEvent(b, content.text, content.attachments, granted, sent, activityId)
    \/ OnEventThrows
    \/ SendMessageStoreBlock
    \/ SendMessageStoreApp
    \/ SendMessageEmit
    \/ \E b \in ThreadBlocks, conversationId \in conversationIds :
          SubscribeOnEvent(b, conversationId)
    \/ SubscribeStoreBlock
    \/ SubscribeStoreApp
    \/ SubscribeReturn
    \/ \E b \in Removable : RemoveBlock(b)

Next == NextOver(Activities, SentActivityIds, SubscribedConversationIds, MessageContents)

Spec == Init /\ [][Next]_vars

----------------------------------------------------------------------------
(* Failing calls.  None of the awaited calls of the handlers is inside a    *)
(* try: when one rejects, the handler it is in ends there and the exception *)
(* leaves handleBotActivity and http.onRequest.                             *)

LookupSteps == {"actionLookup", "replyLookup", "reactionLookup", "invokeLookup"}
ListingSteps == {"mentionList", "actionList", "replyList", "reactionList", "invokeList"}
SendingSteps == {"mentionSend", "actionSend", "replySend", "reactionSend", "invokeSend"}

\* await kv.app.list(...) rejects
KvAppListFails ==
    /\ hpc \in LookupSteps
    /\ Cardinality(faults) < MaxFaults
    /\ hpc' = Propagate("kv.app.list")
    /\ faults' = faults \cup {[call |-> "kv.app.list", block |-> Undefined, delivered |-> {}]}
    /\ UNCHANGED <<request, responses, platform, store, registry, registration, nRemoved, act, locals, sends, inbox, outcome>>

\* await blocks.list(...) rejects
BlocksListFails ==
    /\ hpc \in ListingSteps
    /\ Cardinality(faults) < MaxFaults
    /\ hpc' = Propagate("blocks.list")
    /\ faults' = faults \cup {[call |-> "blocks.list", block |-> Undefined, delivered |-> {}]}
    /\ UNCHANGED <<request, responses, platform, store, registry, registration, nRemoved, act, locals, sends, inbox, outcome>>

\* the ids and the body of the messaging.sendToBlocks call made at position pc
BlockIdsAt(pc) == IF pc = "mentionSend" THEN targetBlockIds ELSE validBlockIds

BodyAt(pc) ==
    IF pc = "mentionSend" THEN MentionBody(act)
    ELSE IF pc = "actionSend" THEN ActionBody(act)
    ELSE IF pc = "replySend" THEN ReplyBody(act)
    ELSE IF pc = "invokeSend" THEN InvokeBody(act)
    ELSE ReactionBody(act, ReactionAt(act, Len(sends)).action,
                      ReactionAt(act, Len(sends)).reaction)

\* await messaging.sendToBlocks(...) rejects because the message could not be
\* handed to block b; which of the other listed blocks got it is the host's
\* business: any of them may have
SendToBlocksFails(b, delivered) ==
    /\ hpc \in SendingSteps
    /\ Cardinality(faults) < MaxFaults
    /\ b \in Range(BlockIdsAt(hpc))
    /\ delivered \subseteq Range(BlockIdsAt(hpc)) \ {b}
    /\ sends' = Append(sends, [blockIds |-> BlockIdsAt(hpc), body |-> BodyAt(hpc)])
    /\ inbox' = SendToBlocks(inbox, FilterIn(BlockIdsAt(hpc), delivered), BodyAt(hpc), registry)
    /\ hpc' = Propagate("sendToBlocks")
    /\ faults' = faults \cup {[call |-> "sendToBlocks", block |-> b, delivered |-> delivered]}
    /\ UNCHANGED <<request, responses, platform, store, registry, registration, nRemoved, act, locals, outcome>>

\* await events.emit(...) rejects in the onInternalMessage handler of the
\* block that got message m: that handler ends, nothing is emitted
EmitFails(m) ==
    /\ inbox # <<>> /\ m = Head(inbox)
    /\ Cardinality(faults) < MaxFaults
    /\ \/ TypeId(m.to) = "mentionsSubscription"
       \/ /\ TypeId(m.to) = "sendMessage"
          /\ HasParent(KvBlockGet(kvBlock, m.to, m.body.activityId))
       \/ /\ TypeId(m.to) = "threadSubscription"
          /\ HasParent(KvBlockGet(kvBlock, m.to, m.body.conversationId))
    /\ inbox' = Tail(inbox)
    /\ faults' = faults \cup {[call |-> "events.emit", block |-> m.to, delivered |-> {}]}
    /\ UNCHANGED <<request, responses, platform, store, registry, registration, nRemoved, handler, outcome>>

\* the activities handled while calls may fail: those with a reply target
\* that come from a user
FaultActivities ==
    {a \in Activities : Truthy(a.replyToId) /\ a.from.id = UserId /\ a.id = <<"5">>}

NextFaults ==
    \/ NextOver(FaultActivities, SentActivityIds, SubscribedConversationIds, MessageContents)
    \/ KvAppListFails
    \/ BlocksListFails
    \/ \E b \in AllBlocks :
          \E delivered \in SUBSET (Range(validBlockIds) \cup Range(targetBlockIds)) :
              SendToBlocksFails(b, delivered)
    \/ \E m \in Messages : EmitFails(m)

SpecFaults == Init /\ [][NextFaults]_vars

----------------------------------------------------------------------------
(* Inputs that lack something: requests whose body is not a well-formed    *)
(* activity (http.onRequest hands input.request.body to handleBotActivity   *)
(* as it is), and sendMessage events with no content.                       *)

\* one activity for each thing the dispatcher does: a mention, an
\* Action.Submit, a reply, a reaction with an added and a removed marker,
\* an invoke
CoreActivities ==
    ChannelMentionActivities \cup NamedActionActivities
    \cup {a \in LaterReplyActivities : ~TruthyValue(a.value)}
    \cup {a \in ReactionActivities :
            /\ Truthy(a.replyToId)
            /\ a.reactionsAdded = <<[type |-> "like"]>>
            /\ a.reactionsRemoved = <<[type |-> "heart"]>>}
    \cup {a \in InvokeActivities : Truthy(a.replyToId) /\ TruthyValue(a.value)}

\* input.request.body of a request that carries no body: not an object
AbsentBody == [body |-> NoValue]

\* bodies that lack what the correlation needs: the empty object; an activity
\* that is nothing but its type; a message with a reply target and no
\* conversation; a message in a thread conversation with no id of its own
MalformedActivities ==
    {Blank(type) : type \in {NoValue, "message", "messageReaction", "invoke"}}
    \cup {[Blank("message") EXCEPT !.replyToId = <<"3">>, !.from = [id |-> UserId]],
          [Blank("message") EXCEPT !.conversation = [id |-> ThreadConversationId],
                                   !.from = [id |-> UserId]]}

\* the other inputConfigs of sendMessage: with every way of having no text
\* and no card, and with a card and no text
EmptyContents ==
    {[text |-> t, attachments |-> c] : t \in {NoValue, ""}, c \in {NoValue, "[]"}}
    \cup {[text |-> NoValue, attachments |-> "[card]"]}

\* a message of the subscribed thread, in reply to the sent message, whose
\* action payload is the empty object
EmptyPayloadActivities ==
    {[Blank("message") EXCEPT
        !.id = <<"5">>, !.replyToId = <<"3">>,
        !.conversation = [id |-> ThreadConversationId],
        !.from = [id |-> UserId], !.value = "{}",
        !.channelData = [teamsChannelId |-> "19:xyz"]]}

\* part_004 line 195, botHandler.ts line 40: `switch (activity.type)` with
\* activity undefined throws a TypeError, which leaves handleBotActivity
OnRequestAbsentBody ==
    /\ hpc = "idle"
    /\ act' = AbsentBody
    /\ hpc' = Propagate("activity.type")
    /\ quiet' = TRUE
    /\ request' = MessagesRequest(AbsentBody)
    /\ responses' = <<>>
    /\ UNCHANGED <<platform, faults, store, registry, registration, nRemoved, locals, sends, inbox, emitted>>

NextRequests ==
    \/ NextOver(CoreActivities \cup MalformedActivities \cup EmptyPayloadActivities,
                SentActivityIds, SubscribedConversationIds,
                MessageContents \cup EmptyContents)
    \/ OnRequestAbsentBody

SpecRequests == Init /\ [][NextRequests]_vars

----------------------------------------------------------------------------
(* Anchors that are related as strings.  The conversation id of a thread   *)
(* subscription is free text of the flow's configuration                   *)
(* (subscribeToReplies.ts lines 16-25): one id may be a prefix of another  *)
(* and may contain the separator of the index keys.                        *)

AnchorConversationIds ==
    {<<"c">>, <<"c", "c">>, <<"c", "|", "T", "1">>}

\* a plain reply from a user in conversation c
PlainReplyActivities ==
    {a \in MessageActivities :
        /\ a.replyToId = <<"3">> /\ a.conversation.id = <<"c">>
        /\ a.from.id = UserId /\ a.entities = <<>> /\ ~TruthyValue(a.value)}

NextAnchors ==
    NextOver(CoreActivities \cup PlainReplyActivities,
             SentActivityIds, AnchorConversationIds, MessageContents)

SpecAnchors == Init /\ [][NextAnchors]_vars

----------------------------------------------------------------------------
(* A conversation whose id is the same string as the id of a sent message: *)
(* the two namespaces of the index then hold keys over the same anchor.    *)

SameIdConversationIds == SentActivityIds

\* a plain reply and an Action.Submit from a user in that conversation, both
\* in reply to the sent message
SameIdActivities ==
    {[Blank("message") EXCEPT
        !.id = <<"5">>, !.replyToId = <<"3">>, !.conversation = [id |-> c],
        !.from = [id |-> UserId], !.value = v,
        !.channelData = [teamsChannelId |-> "19:xyz"]] :
        c \in SameIdConversationIds, v \in {NoValue, "{approve:true}"}}

NextNamespaces ==
    NextOver(CoreActivities \cup SameIdActivities,
             SentActivityIds, SameIdConversationIds, MessageContents)

SpecNamespaces == Init /\ [][NextNamespaces]_vars

----------------------------------------------------------------------------
(* Requests of every kind: other paths, and the Bot Framework endpoint     *)
(* called without the header Bot Framework sends.                          *)

BasicCredentials == <<"B", "a", "s", "i", "c", " ", "t">>

\* the paths: the endpoint, the endpoint under a prefix, the manifest
\* download, and two that are neither
RequestPaths ==
    {MessagesPath, <<"/", "x">> \o MessagesPath, ManifestPath,
     MessagesPath \o <<"/">>, <<"/">>}

\* input.request.headers, as far as the handler reads them: no Authorization
\* header; one under either spelling of its name, with a Bearer token, with
\* "Bearer " and no token, with other credentials, with the scheme in lower
\* case, or empty
RequestHeaders ==
    {[authorization |-> Undefined, Authorization |-> Undefined]}
    \cup {[authorization |-> v, Authorization |-> Undefined] :
            v \in {BearerToken, BearerPrefix, BasicCredentials,
                    <<"b", "e", "a", "r", "e", "r", " ", "t">>, <<>>}}
    \cup {[authorization |-> Undefined, Authorization |-> v] :
            v \in {BearerToken, BasicCredentials}}

\* the body of these requests: a reaction to the sent message
RequestBodies ==
    {a \in CoreActivities : a.type = "messageReaction"}

Requests ==
    {[path |-> p, headers |-> h, body |-> a] :
        p \in RequestPaths, h \in RequestHeaders, a \in RequestBodies}

NextHttp ==
    \/ NextOver(CoreActivities, SentActivityIds, SubscribedConversationIds, MessageContents)
    \/ \E r \in Requests, fetched \in BOOLEAN : OnRequest(r, fetched)

SpecHttp == Init /\ [][NextHttp]_vars

----------------------------------------------------------------------------
(* deleteMessage and updateMessage (part_002), and a flow in which the     *)
(* sending blocks send more than one message.                              *)

DeleteMessageBlocks == {<<"D", "1">>}
UpdateMessageBlocks == {<<"U", "1">>}

\* the platform knows the message and has not deleted it
Posted(activityId) ==
    /\ \E b \in AllBlocks : activityId \in DOMAIN kvBlock[b]
    /\ IF activityId \in DOMAIN platform THEN platform[activityId] # "deleted" ELSE TRUE

\* part_002 lines 33-46: the calls of deleteMessage.onEvent before its emit
DeleteMessageCalls(granted, deleted) ==
    IF ~granted
    THEN [error |-> "Failed to get bot token", calls |-> <<"getBotAccessToken">>]
    ELSE IF ~deleted
    THEN [error |-> "Failed to delete message",
          calls |-> <<"getBotAccessToken", "deleteBotMessage">>]
    ELSE [error |-> NoError, calls |-> <<"getBotAccessToken", "deleteBotMessage">>]

\* part_002 lines 29-46
DeleteMessageOnEvent(b, conversationId, activityId, granted, deleted) ==
    /\ exec.pc = "idle"
    /\ deleted => Posted(activityId)
    /\ LET made == DeleteMessageCalls(granted, deleted)
       IN  IF made.error # NoError
           THEN /\ exec' = [pc |-> "threw", block |-> b, typeId |-> "deleteMessage",
                            text |-> NoValue, attachments |-> NoValue,
                            error |-> made.error, calls |-> made.calls]
                /\ UNCHANGED <<platform, quiet>>
           ELSE /\ exec' = [pc |-> "emit", block |-> b, typeId |-> "deleteMessage",
                            text |-> NoValue, attachments |-> NoValue,
                            activityId |-> activityId,
                            conversationId |-> conversationId, calls |-> made.calls]
                /\ platform' = (activityId :> "deleted") @@ platform
                /\ quiet' = (hpc = "idle")
    /\ UNCHANGED <<request, responses, faults, store, registry, nEvents, history, nRemoved,
                   handler, inbox, emitted>>

\* the content looked at after the platform was asked to update the message
UpdateMessageCallsUpdateFirst(text, attachments, granted, updated) ==
    IF ~granted
    THEN [error |-> "Failed to get bot token", calls |-> <<"getBotAccessToken">>]
    ELSE IF ~updated
    THEN [error |-> "Failed to update message",
          calls |-> <<"getBotAccessToken", "updateBotMessage">>]
    ELSE IF NoContent(text, attachments)
    THEN [error |-> "Updated message must have either text content or adaptive cards",
          calls |-> <<"getBotAccessToken", "updateBotMessage">>]
    ELSE [error |-> NoError, calls |-> <<"getBotAccessToken", "updateBotMessage">>]

\* part_002 lines 138-176: the calls of updateMessage.onEvent before its
\* emit; the content is looked at after the token was obtained
UpdateMessageCalls(text, attachments, granted, updated) ==
    IF ~granted
    THEN [error |-> "Failed to get bot token", calls |-> <<"getBotAccessToken">>]
    ELSE IF NoContent(text, attachments)
    THEN [error |-> "Updated message must have either text content or adaptive cards",
          calls |-> <<"getBotAccessToken">>]
    ELSE IF ~updated
    THEN [error |-> "Failed to update message",
          calls |-> <<"getBotAccessToken", "updateBotMessage">>]
    ELSE [error |-> NoError, calls |-> <<"getBotAccessToken", "updateBotMessage">>]

\* part_002 lines 133-176
UpdateMessageOnEvent(b, conversationId, activityId, text, attachments, granted, updated) ==
    /\ exec.pc = "idle"
    /\ updated => Posted(activityId)
    /\ LET made == UpdateMessageCalls(text, attachments, granted, updated)
       IN  IF made.error # NoError
           THEN /\ exec' = [pc |-> "threw", block |-> b, typeId |-> "updateMessage",
                            text |-> text, attachments |-> attachments,
                            error |-> made.error, calls |-> made.calls]
                /\ UNCHANGED <<platform, quiet>>
           ELSE /\ exec' = [pc |-> "emit", block |-> b, typeId |-> "updateMessage",
                            text |-> text, attachments |-> attachments,
                            activityId |-> activityId,
                            conversationId |-> conversationId, calls |-> made.calls]
                /\ platform' = (activityId :> "updated") @@ platform
                /\ quiet' = (hpc = "idle")
    /\ UNCHANGED <<request, responses, faults, store, registry, nEvents, history, nRemoved,
                   handler, inbox, emitted>>

\* part_002 lines 48-52 and 178-182: events.emit of the default output
EditMessageEmit ==
    /\ exec.pc = "emit"
    /\ exec' = Idle
    /\ UNCHANGED <<request, responses, platform, faults, store, registry, nEvents, history, nRemoved, handler,
                   inbox, outcome>>

\* the ids the platform gives to the messages the flow sends
MessageIds == {<<"3">>, <<"4">>}

\* the platform gives every message an id of its own
UnusedMessageIds == {id \in MessageIds : \A b \in AllBlocks : id \notin DOMAIN kvBlock[b]}

\* reactions to, and card actions on, the second message
SecondMessageActivities ==
    {[a EXCEPT !.replyToId = <<"4">>] :
        a \in {x \in CoreActivities : x.type \in {"messageReaction", "invoke"}}}

\* text and attachments of the inputConfig of an updateMessage event: a text,
\* a card, and every way of having neither
UpdateContents == MessageContents \cup EmptyContents

NextMessages ==
    \/ NextOver(CoreActivities \cup SecondMessageActivities,
                UnusedMessageIds, SubscribedConversationIds, MessageContents)
    \/ \E b \in DeleteMessageBlocks, activityId \in MessageIds,
          granted \in BOOLEAN, deleted \in BOOLEAN :
          DeleteMessageOnEvent(b, <<"c">>, activityId, granted, deleted)
    \/ \E b \in UpdateMessageBlocks, activityId \in MessageIds,
          content \in UpdateContents, granted \in BOOLEAN, updated \in BOOLEAN :
          UpdateMessageOnEvent(b, <<"c">>, activityId, content.text,
                               content.attachments, granted, updated)
    \/ EditMessageEmit

SpecMessages == Init /\ [][NextMessages]_vars

----------------------------------------------------------------------------
(* Progress.  handleBotActivity is a chain of awaited calls: when they      *)
(* succeed the handler goes on to its end and the request is answered; the  *)
(* host hands every internal message to its block's onInternalMessage.      *)
(* Nothing obliges a flow to send, to subscribe or to delete a block, or    *)
(* the platform to deliver another activity.                                *)

\* the positions at which handleBotActivity or the request handler has a call
\* or a statement still to make
Running ==
    {"mentionList", "mentionSend", "actionLookup", "actionList", "actionSend",
     "replyLookup", "replyList", "replySend", "reactionLookup", "reactionList",
     "reactionSend", "invokeLookup", "invokeList", "invokeSend", "done"}

\* the handler leaves the position it is at; under Next only the handler's own
\* steps change hpc, and one of them is enabled at every position of Running
HandlerAdvances ==
    /\ hpc \in Running
    /\ hpc' \in (Running \cup {"responded"}) \ {hpc}

\* a block's onInternalMessage handles the oldest internal message
BlockStep ==
    \E m \in Messages :
        \/ SendMessageOnInternalMessage(m)
        \/ SubscribeOnInternalMessage(m)
        \/ MentionsOnInternalMessage(m)

SpecLive ==
    Init /\ [][NextAnchors]_vars /\ WF_hpc(HandlerAdvances) /\ WF_vars(BlockStep)

----------------------------------------------------------------------------
(* Properties *)

ListSteps == {"actionList", "replyList", "reactionList", "invokeList"}
SendSteps == {"actionSend", "replySend", "reactionSend", "invokeSend"}

\* the anchor the dispatch at position pc looks subscribers up under
AnchorAt(pc) ==
    IF pc \in {"actionList", "actionSend"} THEN ReplyToId(act)
    ELSE IF pc \in {"replyList", "replySend"} THEN act.conversation.id
    ELSE act.replyToId

\* the blocks that, right now, are registered in the index under the anchor of
\* the dispatch at position pc and exist in the registry with the type the
\* dispatch delivers to
LiveSubscribers(pc) ==
    {b \in registry :
        IF pc \in {"replyList", "replySend"}
        THEN /\ TypeId(b) = "threadSubscription"
             /\ RepliesKey(AnchorAt(pc), b) \in DOMAIN kvApp
        ELSE /\ TypeId(b) = "sendMessage"
             /\ EventsKey(AnchorAt(pc), b) \in DOMAIN kvApp}

\* C1 - liveness filter.  In every Reply, Action and Reaction dispatch the
\* ids kept by the listing step are exactly the looked-up ids that are, when
\* the registry is listed, blocks of the right type that exist and are
\* registered under the activity's anchor; when none is left the dispatch
\* ends without sending anything; and each send of the dispatch goes to the
\* ids kept by that listing and hands messages to no other block.
LivenessFilter ==
    [][ /\ (hpc \in ListSteps /\ hpc' # hpc) =>
              /\ Range(validBlockIds') = Range(subscribedBlockIds) \cap LiveSubscribers(hpc)
              /\ Range(validBlockIds') \subseteq LiveSubscribers(hpc)
              /\ validBlockIds' = <<>> =>
                    (hpc' = "done" /\ sends' = sends /\ inbox' = inbox)
        /\ (hpc \in SendSteps) => validBlockIds' = validBlockIds
        /\ (hpc \in SendSteps /\ sends' # sends) =>
              /\ Len(sends') = Len(sends) + 1
              /\ sends'[Len(sends')].blockIds = validBlockIds
              /\ validBlockIds # <<>>
              /\ Len(inbox') >= Len(inbox)
              /\ \A i \in (Len(inbox) + 1)..Len(inbox') :
                    inbox'[i].to \in Range(validBlockIds)
      ]_vars

\* two sendMessage blocks are registered under the anchor, the second was
\* deleted before the registry was listed, and the dispatch delivered to the
\* first only, which emitted
LivenessFilterWitness ==
    /\ subscribedBlockIds = << <<"S", "1">>, <<"S", "2">> >>
    /\ <<"S", "2">> \notin registry
    /\ validBlockIds = << <<"S", "1">> >>
    /\ sends # <<>>
    /\ sends[1].blockIds = << <<"S", "1">> >>
    /\ inbox = <<>>
    /\ BagCardinality(emitted) = Len(sends)
    /\ \A e \in BagToSet(emitted) : e.block = <<"S", "1">>

\* the registrations block b completed for the anchor key, as positions of history
RegistrationsOf(b, key) ==
    {i \in DOMAIN history : history[i].block = b /\ history[i].key = key}

\* the anchor under which the block that receives message m resolves the parent
ParentKeyOf(m) ==
    IF TypeId(m.to) = "threadSubscription" THEN m.body.conversationId
    ELSE m.body.activityId

Classifications == {sends[i].body.type : i \in DOMAIN sends}

RoutedAsReplyOrAction ==
    \/ hpc \in {"actionLookup", "actionList", "actionSend",
                "replyLookup", "replyList", "replySend"}
    \/ Classifications \cap {"reply", "action"} # {}

\* C4 as stated - self-reference guard: a message whose reply target, given
\* explicitly or parsed from the conversation id, is its own id is never
\* routed as a Reply or as an Action.
SelfReferenceGuard ==
    (/\ act.type = "message"
     /\ \/ act.replyToId = act.id
        \/ ~Truthy(act.replyToId) /\ MatchMessageId(act.conversation.id) = act.id)
    => ~RoutedAsReplyOrAction

\* C4 as amended - the guard covers the parsed reply target only: a message
\* without an explicit reply target whose conversation id carries the
\* message's own id is never routed as a Reply or as an Action.
ParsedSelfReferenceGuard ==
    (/\ act.type = "message"
     /\ ~Truthy(act.replyToId)
     /\ Truthy(act.id)
     /\ MatchMessageId(act.conversation.id) = act.id)
    => ~RoutedAsReplyOrAction

\* the root message of a thread (its id is the message id of the conversation
\* id, no explicit reply target) was handled while a thread subscriber of
\* that conversation was live, and nothing was sent
ParsedSelfReferenceGuardWitness ==
    /\ hpc = "done" /\ quiet
    /\ act.type = "message"
    /\ act.id = <<"3">>
    /\ ~Truthy(act.replyToId)
    /\ act.conversation.id = ThreadConversationId
    /\ LiveSubscribers("replySend") # {}
    /\ sends = <<>>

\* the activity in hand is a message with a reply target whose sender id
\* contains the bot's id without its 28: prefix
ReplyFromBot ==
    /\ act.type = "message"
    /\ Truthy(ReplyToId(act))
    /\ Truthy(act.from.id)
    /\ Includes(act.from.id, StripBotPrefix(AppId))

\* C5 as stated - feedback-loop suppression: handling a message that has a
\* reply target and comes from the bot delivers nothing to any subscriber and
\* emits nothing.
FeedbackLoopSuppressed ==
    ReplyFromBot => (sends = <<>> /\ emitted = EmptyBag)

\* C5 as amended - a message that has a reply target and comes from the bot
\* is never routed as a Reply or as an Action; the only delivery it can get
\* is the Mention delivery, when it mentions the bot, and the only events
\* emitted for it are mention events; without a mention of the bot nothing
\* is delivered and nothing emitted.
ReplyFromBotNotRouted ==
    ReplyFromBot =>
        /\ ~RoutedAsReplyOrAction
        /\ Classifications \subseteq {"mention"}
        /\ \A e \in BagToSet(emitted) : TypeId(e.block) = "mentionsSubscription"
        /\ ~BotMentioned(act) => (sends = <<>> /\ emitted = EmptyBag)

\* a reply sent by the bot itself, without a mention, was handled while a
\* thread subscriber of its conversation was live, and nothing was sent
ReplyFromBotNotRoutedWitness ==
    /\ hpc = "done" /\ quiet
    /\ ReplyFromBot
    /\ ~BotMentioned(act)
    /\ ~TruthyValue(act.value)
    /\ LiveSubscribers("replySend") # {}
    /\ sends = <<>> /\ emitted = EmptyBag

\* the number of events block b has emitted for the activity in hand
EmittedBy(b) ==
    BagCardinality([e \in {x \in BagToSet(emitted) : x.block = b} |-> emitted[e]])

\* the prefix a dispatch looks block b's registration for the anchor key up under
PrefixOf(b, key) ==
    IF TypeId(b) = "threadSubscription" THEN RepliesPrefix(key) ELSE EventsPrefix(key)

\* C6 - idempotent registration: however many times a block has registered
\* the same anchor, the lookup under that anchor returns the block exactly
\* once, the ids of a send are pairwise distinct, and a block emits at most
\* one event per send made for the activity.
IdempotentRegistration ==
    /\ \A i \in DOMAIN history :
          LET b == history[i].block
              found == Lookup(kvApp, PrefixOf(b, history[i].key))
          IN  Cardinality({j \in DOMAIN found : found[j] = b}) = 1
    /\ \A i \in DOMAIN sends :
          Cardinality(Range(sends[i].blockIds)) = Len(sends[i].blockIds)
    /\ \A b \in AllBlocks : EmittedBy(b) <= Len(sends)

\* a thread subscriber registered the same conversation twice; a reply in
\* that conversation was then delivered to it once and it emitted one event
IdempotentRegistrationWitness ==
    /\ hpc = "done" /\ inbox = <<>> /\ exec.pc = "idle"
    /\ \E b \in ThreadBlocks :
          /\ Len(history) = 2
          /\ history[1].block = b /\ history[2].block = b
          /\ history[1].key = history[2].key
          /\ subscribedBlockIds = <<b>>
          /\ Len(sends) = 1
          /\ sends[1].body.type = "reply"
          /\ sends[1].blockIds = <<b>>
          /\ EmittedBy(b) = 1
          /\ BagCardinality(emitted) = 1

\* a block's onInternalMessage handler takes the oldest internal message
Consumes ==
    /\ inbox # <<>>
    /\ inbox' = Tail(inbox)
    /\ registry' = registry

\* C7 - no recorded parent, no event: when a sendMessage or threadSubscription
\* block handles a reply, reaction or action message for an anchor it has no
\* originating event recorded for, it emits nothing and the message is gone;
\* and whenever such a block does emit, it has a parent recorded for the
\* message's anchor.
NoParentNoEvent ==
    [][ (Consumes /\ TypeId(Head(inbox).to) # "mentionsSubscription") =>
            LET m == Head(inbox)
            IN  /\ ParentKeyOf(m) \notin DOMAIN kvBlock[m.to] => emitted' = emitted
                /\ emitted' # emitted => ParentKeyOf(m) \in DOMAIN kvBlock[m.to]
      ]_vars

\* an activity was delivered to a live block that is in the index but has no
\* originating event recorded for the anchor (its registration has written
\* the shared key and not yet its own), and the block emitted nothing
NoParentNoEventWitness ==
    /\ hpc = "done" /\ inbox = <<>> /\ nRemoved = 0
    /\ Len(sends) = 1
    /\ sends[1].body.type \in {"reply", "reaction", "action"}
    /\ \E b \in Range(sends[1].blockIds) :
          (IF TypeId(b) = "threadSubscription"
           THEN sends[1].body.conversationId ELSE sends[1].body.activityId)
              \notin DOMAIN kvBlock[b]
    /\ emitted = EmptyBag

\* the handler has returned, every internal message it sent has been handled,
\* and no key was written and no block deleted while that went on
Settled == Returned /\ inbox = <<>> /\ quiet

\* C8 - action dispatch: once a message from a sender other than the bot,
\* with reply target T and an action payload V, has been handled, every live
\* sendMessage block registered under events|T| that has a parent P recorded
\* for T has emitted exactly one event, on the output "events", parented to
\* P, with actionId the activity's name ("submit" when it has none) and
\* actionData V; and nothing else was emitted as an action.
ActionDispatch ==
    (/\ Settled
     /\ act.type = "message"
     /\ Truthy(ReplyToId(act))
     /\ ~(Truthy(act.from.id) /\ Includes(act.from.id, StripBotPrefix(AppId)))
     /\ TruthyValue(act.value)) =>
        LET T == ReplyToId(act)
            live == {b \in LiveSubscribers("actionSend") : T \in DOMAIN kvBlock[b]}
        IN  /\ \A b \in live :
                  /\ EmittedBy(b) = 1
                  /\ \E e \in BagToSet(emitted) :
                        /\ e.block = b
                        /\ e.parentEventId = kvBlock[b][T]
                        /\ e.outputKey = "events"
                        /\ e.event.actionId =
                              (IF TruthyValue(act.name) THEN act.name ELSE "submit")
                        /\ e.event.actionData = act.value
                        /\ e.event.common.activityId = T
            /\ \A e \in BagToSet(emitted) :
                  TypeId(e.block) = "sendMessage" => e.block \in live

\* the message {id 5, reply target 3, from a user, value {approve:true}, name
\* approve} was handled with S1 registered under events|3| by evtA, and S1
\* emitted one action event "approve" parented to evtA
ActionDispatchWitness ==
    /\ Settled
    /\ act \in NamedActionActivities
    /\ kvBlock[<<"S", "1">>] = (<<"3">> :> "evtA")
    /\ EmittedBy(<<"S", "1">>) = 1
    /\ \E e \in BagToSet(emitted) :
          /\ e.block = <<"S", "1">>
          /\ e.parentEventId = "evtA"
          /\ e.event.actionId = "approve"
          /\ e.event.actionData = "{approve:true}"

\* the number of reaction events block b has emitted with the given action
\* and reaction type
ReactionsEmittedBy(b, action, reactionType) ==
    BagCardinality([e \in {x \in BagToSet(emitted) :
                              /\ x.block = b
                              /\ x.event.action = action
                              /\ x.event.reactionType = reactionType}
                    |-> emitted[e]])

\* the number of markers of the given type in a list of reaction markers
MarkersOf(list, reactionType) ==
    Cardinality({i \in DOMAIN list : list[i].type = reactionType})

\* C9 - reaction fan-out count: once a reaction activity with reply target T,
\* a added and r removed markers has been handled, with n live sendMessage
\* blocks registered under T that have a parent recorded for T, exactly
\* n*(a+r) events have been emitted: each of the n blocks has emitted, for
\* every reaction type, as many "add" events as there are added markers of
\* that type and as many "remove" events as there are removed markers of that
\* type, each parented to the block's parent for T; so nothing when a = r = 0.
ReactionFanOut ==
    (/\ Settled
     /\ act.type = "messageReaction"
     /\ Truthy(act.replyToId)) =>
        LET T == act.replyToId
            live == {b \in LiveSubscribers("reactionSend") : T \in DOMAIN kvBlock[b]}
            a == Len(act.reactionsAdded)
            r == Len(act.reactionsRemoved)
        IN  /\ BagCardinality(emitted) = Cardinality(live) * (a + r)
            /\ \A b \in live :
                  /\ EmittedBy(b) = a + r
                  /\ \A t \in ReactionTypes :
                        /\ ReactionsEmittedBy(b, "add", t) = MarkersOf(act.reactionsAdded, t)
                        /\ ReactionsEmittedBy(b, "remove", t) = MarkersOf(act.reactionsRemoved, t)
            /\ \A e \in BagToSet(emitted) :
                  /\ e.block \in live
                  /\ e.parentEventId = kvBlock[e.block][T]
                  /\ e.outputKey = "events"

\* a reaction activity with one added and one removed marker was handled
\* with two live registered sendMessage blocks, and four events were emitted
ReactionFanOutWitness ==
    /\ Settled
    /\ act.type = "messageReaction"
    /\ Len(act.reactionsAdded) = 1 /\ Len(act.reactionsRemoved) = 1
    /\ SendMessageBlocks \subseteq registry
    /\ \A b \in SendMessageBlocks : <<"3">> \in DOMAIN kvBlock[b]
    /\ BagCardinality(emitted) = 4

\* C10 - reaction ordering: the sends made for a reaction activity are, in
\* the order made, one per marker of the added list in its order followed by
\* one per marker of the removed list in its order (a prefix of that while the
\* handler runs, all of it once it has returned after finding live
\* subscribers), and the internal messages wait in the same order, none for
\* an added marker behind one for a removed marker.
ReactionOrdering ==
    act.type = "messageReaction" =>
        LET a == Len(act.reactionsAdded)
            r == Len(act.reactionsRemoved)
        IN  /\ Len(sends) <= a + r
            /\ \A i \in DOMAIN sends :
                  /\ sends[i].body.type = "reaction"
                  /\ IF i <= a
                     THEN /\ sends[i].body.action = "add"
                          /\ sends[i].body.reactionType = act.reactionsAdded[i].type
                     ELSE /\ sends[i].body.action = "remove"
                          /\ sends[i].body.reactionType = act.reactionsRemoved[i - a].type
            /\ (Returned /\ validBlockIds # <<>>) => Len(sends) = a + r
            /\ hpc = "reactionSend" => Len(sends) < a + r
            /\ \A i, j \in DOMAIN inbox :
                  (i < j /\ inbox[i].body.action = "remove") => inbox[j].body.action = "remove"

\* a reaction activity that adds "heart" and removes "like" has been handled:
\* the send for the added marker was made first, the one for the removed second
ReactionOrderingWitness ==
    /\ hpc = "done"
    /\ act.type = "messageReaction"
    /\ Len(sends) = 2
    /\ sends[1].body.action = "add" /\ sends[1].body.reactionType = "heart"
    /\ sends[2].body.action = "remove" /\ sends[2].body.reactionType = "like"

\* the mention subscriptions that exist now and take mentions from a channel:
\* those without a configured channel id and those configured with that one
MentionSubscribers(channelId) ==
    {b \in registry :
        /\ TypeId(b) = "mentionsSubscription"
        /\ ChannelFilter(b) \in {NoValue, "", channelId}}

\* C11 - mention fan-out with channel filter: when the handler of a message
\* that mentions the bot lists the mention subscriptions, it keeps exactly
\* those that exist and have no configured channel id or the activity's; the
\* index plays no part and is not read; with none kept nothing is sent; the
\* mention is sent once, to the kept ones, and messages go to no other block.
MentionFanOut ==
    [][ /\ (hpc = "mentionList" /\ hpc' # hpc) =>
              /\ Range(targetBlockIds') = MentionSubscribers(act.channelData.teamsChannelId)
              /\ subscribedBlockIds' = subscribedBlockIds
              /\ sends' = sends /\ inbox' = inbox
              /\ (hpc' = "mentionSend") <=> (targetBlockIds' # <<>>)
        /\ hpc = "mentionSend" => targetBlockIds' = targetBlockIds
        /\ (hpc = "mentionSend" /\ hpc' # hpc) =>
              /\ sends' = <<[blockIds |-> targetBlockIds, body |-> MentionBody(act)]>>
              /\ Len(inbox') >= Len(inbox)
              /\ \A i \in (Len(inbox) + 1)..Len(inbox') :
                    /\ inbox'[i].to \in Range(targetBlockIds)
                    /\ inbox'[i].body.type = "mention"
        /\ (sends' # sends /\ sends' # <<>> /\ sends'[Len(sends')].body.type = "mention") =>
              hpc = "mentionSend"
      ]_vars

\* with nothing in the index, a mention from channel 19:xyz was handled while
\* both mention subscriptions existed: the one configured with 19:abc was left
\* out, the one without a channel id received the mention and emitted it
MentionFanOutWitness ==
    /\ kvApp = EmptyMap
    /\ act.type = "message" /\ act.channelData.teamsChannelId = "19:xyz"
    /\ MentionBlocks \subseteq registry
    /\ ChannelFilter(<<"m", "1">>) = "19:abc"
    /\ sends = <<[blockIds |-> << <<"m", "2">> >>, body |-> MentionBody(act)]>>
    /\ inbox = <<>>
    /\ EmittedBy(<<"m", "2">>) = 1 /\ EmittedBy(<<"m", "1">>) = 0

\* a mention entity of the activity names this bot: the mentioned id is the
\* bot's id, with or without the 28: prefix
MentionsThisBot(a) ==
    \E i \in DOMAIN a.entities :
        /\ a.entities[i].type = "mention"
        /\ a.entities[i].mentioned.id \in {BotUserId, AppId}

\* C12 - a message is treated as a Mention only when one of its mention
\* entities names this bot: a message whose mention entities all name somebody
\* else never reaches the mention fan-out and is not sent to mention
\* subscribers.
MentionOnlyOfThisBot ==
    (act.type = "message" /\ ~MentionsThisBot(act)) =>
        /\ hpc \notin {"mentionList", "mentionSend"}
        /\ "mention" \notin Classifications
        /\ \A e \in BagToSet(emitted) : TypeId(e.block) # "mentionsSubscription"

\* the activity in hand is a message whose sender id does not contain the
\* bot's id and that has a reply target
ReplyFromOthers ==
    /\ act.type = "message"
    /\ Truthy(ReplyToId(act))
    /\ ~(Truthy(act.from.id) /\ Includes(act.from.id, StripBotPrefix(AppId)))

\* C13 - reply routing: once a message from somebody other than the bot, with
\* a reply target and no action payload, has been handled, it has been sent
\* as a reply exactly once, to exactly the live threadSubscription blocks
\* registered under replies|<conversation id>| (not at all when there is
\* none), whatever its reply target; each of them that has a parent recorded
\* for the conversation id has emitted one event parented to it; nothing went
\* to sendMessage blocks.
ReplyRouting ==
    (/\ Settled
     /\ ReplyFromOthers
     /\ ~TruthyValue(act.value)
     /\ Truthy(act.conversation.id)) =>
        LET conv == act.conversation.id
            live == LiveSubscribers("replySend")
            replies == {i \in DOMAIN sends : sends[i].body.type = "reply"}
        IN  /\ Classifications \subseteq {"mention", "reply"}
            /\ Cardinality(replies) = IF live = {} THEN 0 ELSE 1
            /\ \A i \in replies :
                  /\ Range(sends[i].blockIds) = live
                  /\ sends[i].body.conversationId = conv
                  /\ sends[i].body.replyToId = ReplyToId(act)
            /\ \A b \in live :
                  IF conv \in DOMAIN kvBlock[b]
                  THEN /\ EmittedBy(b) = 1
                       /\ \E e \in BagToSet(emitted) :
                             /\ e.block = b
                             /\ e.parentEventId = kvBlock[b][conv]
                             /\ e.outputKey = "default"
                             /\ e.event.activityId = act.id
                  ELSE EmittedBy(b) = 0
            /\ \A e \in BagToSet(emitted) :
                  TypeId(e.block) # "mentionsSubscription" => e.block \in live

\* a message of the subscribed conversation that replies to message 7 (not
\* the message the thread hangs on) was delivered to the thread subscriber
\* registered for the conversation, which emitted it under its parent
ReplyRoutingWitness ==
    /\ Settled
    /\ act \in LaterReplyActivities /\ ~TruthyValue(act.value)
    /\ act.replyToId = <<"7">>
    /\ MatchMessageId(act.conversation.id) = <<"3">>
    /\ \E b \in ThreadBlocks :
          /\ LiveSubscribers("replySend") = {b}
          /\ sends = <<[blockIds |-> <<b>>, body |-> ReplyBody(act)]>>
          /\ EmittedBy(b) = 1
          /\ \E e \in BagToSet(emitted) :
                e.parentEventId = kvBlock[b][act.conversation.id]

\* C14 - Action takes precedence over Reply: a message with a reply target T
\* and an action payload never enters the reply part of the handler, is never
\* sent as a reply, and no thread subscription emits for it; what is sent as
\* an action is anchored at T and goes to blocks registered under events|T|.
ActionBeforeReply ==
    (/\ act.type = "message"
     /\ Truthy(ReplyToId(act))
     /\ TruthyValue(act.value)) =>
        /\ hpc \notin {"replyLookup", "replyList", "replySend"}
        /\ "reply" \notin Classifications
        /\ \A e \in BagToSet(emitted) : TypeId(e.block) # "threadSubscription"
        /\ \A m \in Messages : TypeId(m.to) # "threadSubscription"
        /\ \A i \in DOMAIN sends :
              sends[i].body.type = "action" =>
                  /\ sends[i].body.activityId = ReplyToId(act)
                  /\ \A b \in Range(sends[i].blockIds) :
                        /\ TypeId(b) = "sendMessage"
                        /\ EventsKey(ReplyToId(act), b) \in DOMAIN kvApp

\* a message with a reply target and an action payload was handled while its
\* conversation had a live thread subscriber and its reply target had no
\* events subscriber: nothing was sent to anybody
ActionBeforeReplyWitness ==
    /\ Settled
    /\ ReplyFromOthers
    /\ TruthyValue(act.value)
    /\ ~BotMentioned(act)
    /\ LiveSubscribers("replySend") # {}
    /\ \A b \in AllBlocks : EventsKey(ReplyToId(act), b) \notin DOMAIN kvApp
    /\ sends = <<>> /\ emitted = EmptyBag

\* the reply target the reply and action sends made for the activity carry
SentReplyTargets ==
    {sends[i].body.replyToId : i \in {j \in DOMAIN sends : sends[j].body.type = "reply"}}
    \cup {sends[i].body.activityId : i \in {j \in DOMAIN sends : sends[j].body.type = "action"}}

\* C15 - derived reply target.  For a message with an id: when it has an
\* explicit reply target, that is the reply target of whatever is sent for
\* it, whatever its conversation id holds; when it has none and its
\* conversation id holds ;messageid=N, the reply target is N if N is not the
\* message's own id - the message is then routed as the reply it is - and
\* there is none if N is its own id or the conversation id holds no message
\* id: the message is then not routed as a Reply or an Action.
DerivedReplyTarget ==
    (act.type = "message" /\ Truthy(act.id)) =>
        LET N == MatchMessageId(act.conversation.id)
        IN  IF Truthy(act.replyToId)
            THEN SentReplyTargets \subseteq {act.replyToId}
            ELSE IF N # Undefined /\ N # act.id
            THEN /\ SentReplyTargets \subseteq {N}
                 /\ (/\ Settled
                     /\ ~(Truthy(act.from.id) /\ Includes(act.from.id, StripBotPrefix(AppId)))
                     /\ ~TruthyValue(act.value)
                     /\ LiveSubscribers("replySend") # {}) =>
                        \E i \in DOMAIN sends :
                            /\ sends[i].body.type = "reply"
                            /\ sends[i].body.replyToId = N
                 /\ (/\ Settled
                     /\ ~(Truthy(act.from.id) /\ Includes(act.from.id, StripBotPrefix(AppId)))
                     /\ TruthyValue(act.value)
                     /\ \E b \in registry :
                           /\ TypeId(b) = "sendMessage"
                           /\ EventsKey(N, b) \in DOMAIN kvApp) =>
                        \E i \in DOMAIN sends :
                            /\ sends[i].body.type = "action"
                            /\ sends[i].body.activityId = N
            ELSE ~RoutedAsReplyOrAction

\* a message with id 5 and no explicit reply target, in the conversation
\* c;messageid=3, was delivered as a reply to message 3 and emitted
DerivedReplyTargetWitness ==
    /\ Settled
    /\ act.type = "message" /\ act.id = <<"5">>
    /\ ~Truthy(act.replyToId)
    /\ act.conversation.id = ThreadConversationId
    /\ Len(sends) = 1
    /\ sends[1].body.type = "reply"
    /\ sends[1].body.replyToId = <<"3">>
    /\ BagCardinality(emitted) = 1

\* C16 - reactions and invokes.  Without a reply target a reaction or invoke
\* activity is ignored: its handler returns at once, no lookup, no listing,
\* nothing sent, nothing emitted.  With a reply target T it goes through
\* events|T| only: what is sent goes to sendMessage blocks registered under
\* events|T|, anchored at T, a reaction as "reaction", an invoke as "action"
\* with the activity's name as actionId; and once an invoke has been handled
\* it has been sent exactly once to the live registered blocks, if any.
ReactionAndInvokeRouting ==
    act.type \in {"messageReaction", "invoke"} =>
        IF ~Truthy(act.replyToId)
        THEN /\ Returned
             /\ subscribedBlockIds = <<>> /\ validBlockIds = <<>>
             /\ sends = <<>> /\ inbox = <<>> /\ emitted = EmptyBag
        ELSE /\ hpc \in (IF act.type = "invoke"
                         THEN {"invokeLookup", "invokeList", "invokeSend"}
                         ELSE {"reactionLookup", "reactionList", "reactionSend"})
                        \cup {"done", "responded"}
             /\ \A i \in DOMAIN sends :
                   /\ sends[i].body.activityId = act.replyToId
                   /\ \A b \in Range(sends[i].blockIds) :
                         /\ TypeId(b) = "sendMessage"
                         /\ EventsKey(act.replyToId, b) \in DOMAIN kvApp
                   /\ IF act.type = "invoke"
                      THEN /\ sends[i].body.type = "action"
                           /\ sends[i].body.actionId = act.name
                      ELSE sends[i].body.type = "reaction"
             /\ \A e \in BagToSet(emitted) :
                   /\ TypeId(e.block) = "sendMessage"
                   /\ e.event.common.type = (IF act.type = "invoke" THEN "action" ELSE "reaction")
                   /\ act.type = "invoke" => e.event.actionId = act.name
             /\ (Settled /\ act.type = "invoke") =>
                   IF LiveSubscribers("invokeSend") = {} THEN sends = <<>>
                   ELSE /\ Len(sends) = 1
                        /\ Range(sends[1].blockIds) = LiveSubscribers("invokeSend")

\* a reaction activity with a marker and no reply target was handled and
\* answered while a sendMessage block was registered and live: nothing was
\* looked up, sent or emitted
ReactionAndInvokeRoutingWitness ==
    /\ hpc = "responded" /\ quiet
    /\ act.type = "messageReaction"
    /\ ~Truthy(act.replyToId)
    /\ Len(act.reactionsAdded) = 1
    /\ \E b \in registry : EventsKey(<<"3">>, b) \in DOMAIN kvApp
    /\ subscribedBlockIds = <<>> /\ sends = <<>> /\ emitted = EmptyBag

\* the types handleBotActivity has a handler for
HandledTypes == {"message", "messageReaction", "invoke"}

\* an activity is in hand and its type is none of the handled ones
OtherKind(a) == a.type \notin HandledTypes \cup {NoValue}

\* C17 - other kinds are ignored: taking in an activity of any other type
\* leaves the index, the parent maps and the registry as they are and the
\* handler has returned at once; while such an activity is in hand the
\* handler is not in any lookup, listing or send, nothing has been sent for
\* it, no internal message is in flight and nothing has been emitted; the
\* request is then answered.
OtherKindsIgnored ==
    [][ OtherKind(act') =>
            /\ hpc' \in {"done", "responded"}
            /\ sends' = <<>> /\ inbox' = <<>> /\ emitted' = EmptyBag
            /\ subscribedBlockIds' = <<>> /\ validBlockIds' = <<>> /\ targetBlockIds' = <<>>
            /\ act' # act =>
                  /\ hpc' = "done"
                  /\ kvApp' = kvApp /\ kvBlock' = kvBlock /\ registry' = registry
            /\ hpc' # hpc =>
                  kvApp' = kvApp /\ kvBlock' = kvBlock /\ registry' = registry
      ]_vars

\* a conversationUpdate activity that carries a reply target, a thread
\* conversation id and a mention of the bot was handled and answered while a
\* thread subscriber of the conversation and the mention subscriptions were
\* live: nothing was sent
OtherKindsIgnoredWitness ==
    /\ hpc = "responded" /\ quiet
    /\ act.type = "conversationUpdate"
    /\ BotMentioned(act) /\ Truthy(act.replyToId)
    /\ MentionBlocks \subseteq registry
    /\ \E b \in registry : RepliesKey(act.conversation.id, b) \in DOMAIN kvApp
    /\ sends = <<>> /\ emitted = EmptyBag

\* the prefix the lookup at position pc scans the index for
PrefixAt(pc) ==
    IF pc = "replyLookup" THEN RepliesPrefix(act.conversation.id)
    ELSE IF pc = "actionLookup" THEN EventsPrefix(ReplyToId(act))
    ELSE EventsPrefix(act.replyToId)

\* C20 - unregistered anchor: when the lookup of a Reply, Action or Reaction
\* dispatch finds no key in the index under the activity's anchor, the
\* handler returns there: the registry is not listed, nothing is sent, no
\* internal message is created, nothing emitted; and a handler that has
\* returned is followed by the 200 OK answer and by nothing else.
UnregisteredAnchor ==
    [][ /\ (/\ hpc \in LookupSteps /\ hpc' # hpc
            /\ ~\E k \in DOMAIN kvApp : StartsWith(k, PrefixAt(hpc))) =>
               /\ hpc' = "done"
               /\ subscribedBlockIds' = <<>>
               /\ validBlockIds' = validBlockIds
               /\ sends' = sends /\ inbox' = inbox /\ emitted' = emitted
               /\ kvApp' = kvApp /\ kvBlock' = kvBlock
        /\ (hpc = "done" /\ hpc' # hpc) =>
               /\ hpc' = "responded"
               /\ sends' = sends /\ inbox' = inbox /\ emitted' = emitted
      ]_vars

\* a reaction to message 3 was handled and answered 200 OK while sendMessage
\* blocks existed, keys of other anchors were in the index and none under
\* events|3|: nothing was listed or sent
UnregisteredAnchorWitness ==
    /\ hpc = "responded" /\ quiet
    /\ act.type = "messageReaction" /\ act.replyToId = <<"3">>
    /\ Len(act.reactionsAdded) = 1
    /\ kvApp # EmptyMap
    /\ ~\E k \in DOMAIN kvApp : StartsWith(k, EventsPrefix(<<"3">>))
    /\ SendMessageBlocks \subseteq registry
    /\ subscribedBlockIds = <<>> /\ validBlockIds = <<>>
    /\ sends = <<>> /\ emitted = EmptyBag

\* the request is over: answered, or ended by an exception
RequestOver == hpc \in {"responded", "failed"}

\* the blocks a delivery to, or an emission by, failed for the activity in hand
FailedSubscribers == {f.block : f \in faults}

\* C18 - failure isolation in fan-out: when the only failures met while a
\* reaction activity was handled concern single subscribers (handing a
\* message to one, or one's emission), and a failed send still reached every
\* other listed block, then, once the request is over and every internal
\* message handled, each other live sendMessage block registered under the
\* reply target with a parent has emitted one event per reaction change of
\* the activity, the later ones included.
FailureIsolation ==
    (/\ RequestOver /\ inbox = <<>> /\ quiet
     /\ act.type = "messageReaction" /\ Truthy(act.replyToId)
     /\ \A f \in faults :
           /\ f.call \in {"sendToBlocks", "events.emit"}
           /\ f.call = "sendToBlocks" =>
                 f.delivered = Range(validBlockIds) \ {f.block}) =>
        \A b \in LiveSubscribers("reactionSend") \ FailedSubscribers :
            act.replyToId \in DOMAIN kvBlock[b] =>
                EmittedBy(b) = Len(act.reactionsAdded) + Len(act.reactionsRemoved)

\* the failures of the index scan or of the registry listing among a set of faults
StoreFaults(fs) == {f \in fs : f.call \in {"kv.app.list", "blocks.list"}}

\* C19 - store unavailability is fatal for the activity: the step in which
\* the index scan or the registry listing fails ends the handler with the
\* exception, sends nothing, and leaves the index and the parent maps as they
\* were; after an exception the request is never answered 200 OK, no further
\* send is made and no new internal message appears; and no step of the
\* handler ever writes the index or a parent map.
StoreFailureIsFatal ==
    [][ /\ StoreFaults(faults') # StoreFaults(faults) /\ faults' # {} =>
              /\ hpc' = "failed"
              /\ sends' = sends /\ inbox' = inbox /\ emitted' = emitted
              /\ kvApp' = kvApp /\ kvBlock' = kvBlock
        /\ hpc = "failed" =>
              /\ hpc' \in {"failed", "idle"}
              /\ hpc' = "failed" => (sends' = sends /\ Len(inbox') <= Len(inbox))
        /\ StoreFaults(faults) # {} => hpc \in {"failed"}
        /\ (hpc' # hpc \/ sends' # sends) => (kvApp' = kvApp /\ kvBlock' = kvBlock)
      ]_vars

\* the registry listing failed while a reaction to a message with two live
\* registered subscribers was handled: the handler ended with the exception
\* after the lookup, nothing was sent or emitted
StoreFailureIsFatalWitness ==
    /\ hpc = "failed" /\ quiet
    /\ faults = {[call |-> "blocks.list", block |-> Undefined, delivered |-> {}]}
    /\ act.type = "messageReaction"
    /\ Len(act.reactionsAdded) = 1
    /\ Len(subscribedBlockIds) = 2
    /\ Range(subscribedBlockIds) \subseteq registry
    /\ \A b \in Range(subscribedBlockIds) : act.replyToId \in DOMAIN kvBlock[b]
    /\ sends = <<>> /\ inbox = <<>> /\ emitted = EmptyBag

\* the request in hand carries a body that is absent or lacks what the
\* correlation needs
Malformed == hpc # "idle" /\ (act = AbsentBody \/ act \in MalformedActivities)

\* C21 - malformed activity: a request whose body is absent, empty or lacks
\* the fields the correlation needs is ignored: handling it raises no error,
\* looks nothing up, sends nothing, nothing is emitted for it, and the
\* request is answered 200 OK.
MalformedIgnored ==
    Malformed =>
        /\ hpc \in {"done", "responded"}
        /\ subscribedBlockIds = <<>> /\ validBlockIds = <<>> /\ targetBlockIds = <<>>
        /\ sends = <<>> /\ inbox = <<>> /\ emitted = EmptyBag

\* the ids of a list are pairwise distinct
NoDuplicates(ids) == Cardinality(Range(ids)) = Len(ids)

\* C22 - at most once per subscriber: the list of ids of each send made for
\* an activity has no duplicates, and a block emits at most one event for a
\* message or invoke activity, at most one per reaction change for a reaction
\* activity.
AtMostOncePerSubscriber ==
    /\ \A i \in DOMAIN sends : NoDuplicates(sends[i].blockIds)
    /\ hpc # "idle" =>
          \A b \in AllBlocks :
              EmittedBy(b) <= IF act.type = "messageReaction"
                              THEN Len(act.reactionsAdded) + Len(act.reactionsRemoved)
                              ELSE 1

\* the message was deleted on the platform
Deleted(activityId) ==
    IF activityId \in DOMAIN platform THEN platform[activityId] = "deleted" ELSE FALSE

\* the reaction in hand is to a message that was deleted on the platform
ReactionToDeleted ==
    /\ act.type = "messageReaction" /\ Truthy(act.replyToId)
    /\ Deleted(act.replyToId)

\* C23 - subscription records are never deleted: no step of the dispatch, of
\* sendMessage, subscribe, updateMessage or deleteMessage, and no deletion of
\* a block, removes a key from the shared index or from a block's parent map;
\* the step in which a message is deleted or updated on the platform leaves
\* both as they are; and a reaction handled after its target was deleted on
\* the platform is still emitted, once per reaction change, by every live
\* sending block registered for the target with a parent.
RecordsNeverDeleted ==
    [][ /\ DOMAIN kvApp \subseteq DOMAIN kvApp'
        /\ \A b \in AllBlocks : DOMAIN kvBlock[b] \subseteq DOMAIN kvBlock'[b]
        /\ platform' # platform => (kvApp' = kvApp /\ kvBlock' = kvBlock)
        /\ (Settled' /\ ReactionToDeleted') =>
               \A b \in LiveSubscribers("reactionSend")' :
                   act'.replyToId \in DOMAIN kvBlock'[b] =>
                       EmittedBy(b)' = Len(act'.reactionsAdded) + Len(act'.reactionsRemoved)
      ]_vars

\* message 3, sent by S1, was deleted on the platform by deleteMessage; a
\* reaction to it that arrived afterwards, with an added and a removed marker,
\* was delivered to S1, which emitted both events
RecordsNeverDeletedWitness ==
    /\ Settled
    /\ act.type = "messageReaction" /\ act.replyToId = <<"3">>
    /\ Deleted(<<"3">>)
    /\ EventsKey(<<"3">>, <<"S", "1">>) \in DOMAIN kvApp
    /\ <<"3">> \in DOMAIN kvBlock[<<"S", "1">>]
    /\ Len(sends) = 2
    /\ EmittedBy(<<"S", "1">>) = 2

\* an execution of sendMessage.onEvent has ended with an exception, and its
\* inputConfig had neither a text nor a card
ThrewForNoContent ==
    /\ exec.pc = "threw"
    /\ exec.typeId = "sendMessage"
    /\ NoContent(exec.text, exec.attachments)

\* C24 - sendMessage without content: an execution of sendMessage.onEvent
\* whose inputConfig has neither a text nor at least one attachment ends with
\* the error "Message must have either text content or adaptive cards" having
\* made no call to the outside (no token request, no post to the platform);
\* the step leaves the index, the parent maps and the count of registering
\* events as they are and emits nothing; and nothing of the kind happens
\* before the exception has left the handler.
NoContentNoEffect ==
    [][ /\ (ThrewForNoContent' /\ exec' # exec) =>
              /\ exec'.error = "Message must have either text content or adaptive cards"
              /\ exec'.calls = <<>>
              /\ kvApp' = kvApp /\ kvBlock' = kvBlock
              /\ history' = history /\ nEvents' = nEvents
        /\ exec.pc = "threw" =>
              /\ exec'.pc \in {"threw", "idle"}
              /\ kvApp' = kvApp /\ kvBlock' = kvBlock
              /\ history' = history /\ nEvents' = nEvents
      ]_vars

\* sendMessage was triggered with the empty string as text and an empty
\* list of attachments, while another message had been sent and registered:
\* it threw without having called anything
NoContentNoEffectWitness ==
    /\ ThrewForNoContent
    /\ exec.text = "" /\ exec.attachments = "[]"
    /\ exec.calls = <<>>
    /\ kvApp # EmptyMap
    /\ history # <<>>

\* the events whose handling by block b sent message M: those of b's
\* completed executions and of the one that is storing its keys
TriggersOf(b, M) ==
    {history[i].eventId : i \in RegistrationsOf(b, M)}
    \cup (IF exec.pc = "store" /\ exec.block = b /\ exec.key = M
          THEN {exec.eventId} ELSE {})

\* C25 - events on a sent message attach to the event that sent it: whenever
\* a sendMessage block emits for a reaction or action on message M, the event
\* goes out on the output "events", is about M, and is parented to the event
\* whose handling sent M, not to the event that sent any other message; and
\* the messages of one block are sent by different events.
EventsAttachToSender ==
    [][ /\ (/\ Consumes
            /\ TypeId(Head(inbox).to) = "sendMessage"
            /\ emitted' # emitted) =>
               \E e \in BagToSet(emitted') :
                   /\ emitted' = emitted (+) SetToBag({e})
                   /\ e.block = Head(inbox).to
                   /\ e.outputKey = "events"
                   /\ e.event.common.activityId = Head(inbox).body.activityId
                   /\ TriggersOf(e.block, e.event.common.activityId) = {e.parentEventId}
                   /\ \A M \in MessageIds \ {e.event.common.activityId} :
                         e.parentEventId \notin TriggersOf(e.block, M)
        /\ \A b \in SendMessageBlocks : \A M1, M2 \in MessageIds :
               M1 # M2 => TriggersOf(b, M1) \cap TriggersOf(b, M2) = {}
      ]_vars

\* S1 sent message 3 when handling evtA and message 4 when handling evtB; a
\* reaction to message 4 with two markers was then handled, and both events
\* S1 emitted are children of evtB, on the output "events"
EventsAttachToSenderWitness ==
    /\ Settled
    /\ act.type = "messageReaction" /\ act.replyToId = <<"4">>
    /\ kvBlock[<<"S", "1">>] = (<<"3">> :> "evtA") @@ (<<"4">> :> "evtB")
    /\ EmittedBy(<<"S", "1">>) = 2
    /\ \A e \in BagToSet(emitted) :
          /\ e.block = <<"S", "1">>
          /\ e.parentEventId = "evtB"
          /\ e.outputKey = "events"

\* an execution of sendMessage.onEvent is past the platform call
SendMessageStoring == exec.pc = "store" /\ TypeId(exec.block) = "sendMessage"

\* C26 - the order of sendMessage.onEvent: the execution starts to store only
\* after the token was obtained and the platform returned the message's
\* activity id, and has written nothing before; what it writes are the key
\* events|<activityId>|<blockId> and the block's record activityId -> the
\* triggering event's id; the "Message Sent" event is emitted only when both
\* are written; and an execution whose token request or platform call failed
\* writes no key and emits nothing.
SendMessageOrdering ==
    [][ /\ (exec.pc = "idle" /\ SendMessageStoring') =>
              /\ exec'.calls = <<"getBotAccessToken", "sendMessageToChannel">>
              /\ exec'.pending = {"block", "app"}
              /\ kvApp' = kvApp /\ kvBlock' = kvBlock /\ history' = history
        /\ (SendMessageStoring /\ kvApp' # kvApp) =>
              /\ kvApp' = (EventsKey(exec.key, exec.block) :> TRUE) @@ kvApp
              /\ history' = history
        /\ (SendMessageStoring /\ kvBlock' # kvBlock) =>
              /\ kvBlock' = [kvBlock EXCEPT ![exec.block] = (exec.key :> exec.eventId) @@ @]
              /\ history' = history
        /\ history' # history =>
              /\ exec.pc = "store" /\ exec'.pc = "idle"
              /\ EventsKey(exec.key, exec.block) \in DOMAIN kvApp
                    \/ TypeId(exec.block) # "sendMessage"
              /\ KvBlockGet(kvBlock, exec.block, exec.key) = exec.eventId
              /\ kvApp' = kvApp /\ kvBlock' = kvBlock
        /\ (SendMessageStoring /\ exec'.pc = "idle") => history' # history
        /\ (exec.pc = "idle" /\ exec'.pc = "threw") =>
              (kvApp' = kvApp /\ kvBlock' = kvBlock /\ history' = history)
        /\ exec.pc = "threw" =>
              /\ exec'.pc \in {"threw", "idle"}
              /\ kvApp' = kvApp /\ kvBlock' = kvBlock /\ history' = history
      ]_vars

\* S1 has obtained the token, posted message 3 and written both of its keys;
\* the "Message Sent" event of this execution is not emitted yet
SendMessageOrderingWitness ==
    /\ SendMessageStoring
    /\ exec.block = <<"S", "1">> /\ exec.key = <<"3">>
    /\ exec.calls = <<"getBotAccessToken", "sendMessageToChannel">>
    /\ exec.pending = {}
    /\ EventsKey(<<"3">>, <<"S", "1">>) \in DOMAIN kvApp
    /\ kvBlock[<<"S", "1">>] = (<<"3">> :> exec.eventId)
    /\ history = <<>>

\* the activity in hand is a message with a reply target whose action
\* payload is the empty object
EmptyPayload == hpc # "idle" /\ act \in EmptyPayloadActivities

\* C27 as stated - an empty action payload makes no Action: the message is
\* not sent as an action, and goes to the thread subscribers as a reply.
EmptyPayloadIsReply ==
    EmptyPayload =>
        /\ hpc \notin {"actionLookup", "actionList", "actionSend"}
        /\ \A i \in DOMAIN sends : sends[i].body.type = "reply"

\* C27 as amended - an empty action payload is a payload: the message is
\* classified as Action.  It is looked up under events|<reply target>|, never
\* under replies|; what is sent for it is an action with the empty object as
\* its data, to sendMessage blocks; once it is handled every live sendMessage
\* block registered under the reply target with a parent has emitted one
\* action event, and the thread subscribers of its conversation have emitted
\* nothing.
EmptyPayloadIsAction ==
    EmptyPayload =>
        /\ hpc \in {"actionLookup", "actionList", "actionSend", "done", "responded"}
        /\ \A i \in DOMAIN sends :
              /\ sends[i].body.type = "action"
              /\ sends[i].body.actionData = "{}"
              /\ \A b \in Range(sends[i].blockIds) : TypeId(b) = "sendMessage"
        /\ \A b \in ThreadBlocks : EmittedBy(b) = 0
        /\ Settled =>
              \A b \in LiveSubscribers("actionSend") :
                  ReplyToId(act) \in DOMAIN kvBlock[b] =>
                      /\ EmittedBy(b) = 1
                      /\ \E e \in BagToSet(emitted) :
                            e.block = b /\ e.event.actionData = "{}"

\* the message with the empty payload was handled while S1 was registered
\* for its reply target and T1 for its conversation, both live: S1 emitted
\* one action event, T1 nothing
EmptyPayloadIsActionWitness ==
    /\ EmptyPayload /\ Settled
    /\ <<"S", "1">> \in registry /\ <<"T", "1">> \in registry
    /\ <<"3">> \in DOMAIN kvBlock[<<"S", "1">>]
    /\ EventsKey(<<"3">>, <<"S", "1">>) \in DOMAIN kvApp
    /\ ThreadConversationId \in DOMAIN kvBlock[<<"T", "1">>]
    /\ RepliesKey(ThreadConversationId, <<"T", "1">>) \in DOMAIN kvApp
    /\ Len(sends) = 1 /\ sends[1].body.type = "action"
    /\ EmittedBy(<<"S", "1">>) = 1
    /\ EmittedBy(<<"T", "1">>) = 0

\* the anchors block b can be registered under in the index
AnchorsOf(b) ==
    IF TypeId(b) = "threadSubscription" THEN SubscribedConversationIds ELSE SentActivityIds

\* the key of the index for anchor A and block b
IndexKey(A, b) ==
    IF TypeId(b) = "threadSubscription" THEN RepliesKey(A, b) ELSE EventsKey(A, b)

\* C28 - registration racing with dispatch: at every moment, if the index
\* holds the key <namespace>|A|B then block B has a parent event recorded for
\* A; and a block never handles a reply, reaction or action message for an
\* anchor it has no parent for.
IndexedImpliesParent ==
    /\ \A b \in SendMessageBlocks \cup ThreadBlocks : \A A \in AnchorsOf(b) :
          IndexKey(A, b) \in DOMAIN kvApp => A \in DOMAIN kvBlock[b]
    /\ \A i \in DOMAIN inbox :
          TypeId(inbox[i].to) # "mentionsSubscription" =>
              ParentKeyOf(inbox[i]) \in DOMAIN kvBlock[inbox[i].to]

\* block b has completed a registration for anchor key
Registered(b, key) == RegistrationsOf(b, key) # {}

\* the number of events block b is to emit for the activity in hand: for a
\* sendMessage block registered for the target of a reaction, of an invoke or
\* of an Action.Submit message, one per reaction change or one; for a thread
\* subscriber registered for the conversation of a plain reply that is not
\* from the bot, one; else none
Due(b) ==
    IF hpc = "idle" THEN 0
    ELSE IF TypeId(b) = "sendMessage"
    THEN IF act.type = "messageReaction" /\ Truthy(act.replyToId)
              /\ Registered(b, act.replyToId)
         THEN Len(act.reactionsAdded) + Len(act.reactionsRemoved)
         ELSE IF act.type = "invoke" /\ Truthy(act.replyToId)
                   /\ Registered(b, act.replyToId)
         THEN 1
         ELSE IF act.type = "message" /\ Truthy(ReplyToId(act))
                   /\ ~IsFromBot(act, AppId) /\ TruthyValue(act.value)
                   /\ Registered(b, ReplyToId(act))
         THEN 1
         ELSE 0
    ELSE IF TypeId(b) = "threadSubscription"
    THEN IF act.type = "message" /\ Truthy(ReplyToId(act))
              /\ ~IsFromBot(act, AppId) /\ ~TruthyValue(act.value)
              /\ Truthy(act.conversation.id)
              /\ Registered(b, act.conversation.id)
         THEN 1
         ELSE 0
    ELSE 0

\* the handler has taken the activity in and has not yet looked anything up
BeforeLookup ==
    /\ hpc \in {"mentionList", "mentionSend"} \cup LookupSteps
    /\ subscribedBlockIds = <<>> /\ validBlockIds = <<>>

\* C29 - delivery after registration: when an activity is taken in after a
\* block has completed a registration for its anchor, and the block is not
\* deleted from the flow, the block eventually has emitted the events due
\* for the activity: one per reaction change, one for an action, one for a
\* plain reply that is not from the bot.
DeliveryAfterRegistration ==
    \A b \in SendMessageBlocks \cup ThreadBlocks :
        (BeforeLookup /\ Due(b) > 0 /\ b \in registry)
            ~> (b \notin registry \/ (Due(b) > 0 /\ EmittedBy(b) >= Due(b)))

\* S1 had completed the sending of message 3 when a reaction to it with an
\* added and a removed marker arrived; S1 is still in the flow and has emitted
\* both events
DeliveryAfterRegistrationWitness ==
    /\ Returned /\ inbox = <<>>
    /\ act.type = "messageReaction"
    /\ Due(<<"S", "1">>) = 2
    /\ <<"S", "1">> \in registry
    /\ EmittedBy(<<"S", "1">>) = 2

\* the blocks with a key of the index that was written for anchor A, in the
\* replies namespace and in the events namespace
RegisteredForReplies(A) == {b \in AllBlocks : RepliesKey(A, b) \in DOMAIN kvApp}
RegisteredForEvents(A) == {b \in AllBlocks : EventsKey(A, b) \in DOMAIN kvApp}

\* C30 - anchor isolation in lookup: for every anchor, also one that is a
\* prefix of another anchor or that contains the separator |, the lookup
\* returns exactly the ids of the blocks registered under that anchor, so a
\* registration under another anchor adds nothing to it.
AnchorIsolation ==
    /\ \A A \in AnchorConversationIds :
           Range(Lookup(kvApp, RepliesPrefix(A))) = RegisteredForReplies(A)
    /\ \A A \in SentActivityIds :
           Range(Lookup(kvApp, EventsPrefix(A))) = RegisteredForEvents(A)

\* the ids of one list are blocks of the given type with a key of the index
\* under the anchor in the events namespace, or in the replies namespace
AllInEvents(ids, A) ==
    \A b \in Range(ids) : TypeId(b) = "sendMessage" /\ EventsKey(A, b) \in DOMAIN kvApp
AllInReplies(ids, A) ==
    \A b \in Range(ids) :
        TypeId(b) = "threadSubscription" /\ RepliesKey(A, b) \in DOMAIN kvApp

\* C31 - namespace isolation: the lookup of an Action, a reaction or an
\* invoke finds only blocks with a key in the events namespace and the
\* lookup of a reply only blocks with a key in the replies namespace, also
\* when the conversation id and the message id are the same string; action
\* and reaction messages are sent to, and handled by, sendMessage blocks
\* registered for the message, reply messages by threadSubscription blocks
\* registered for the conversation.
NamespaceIsolation ==
    /\ hpc \in {"actionList", "reactionList", "invokeList"}
           => \A b \in Range(subscribedBlockIds) : EventsKey(AnchorAt(hpc), b) \in DOMAIN kvApp
    /\ hpc = "replyList"
           => \A b \in Range(subscribedBlockIds) : RepliesKey(AnchorAt(hpc), b) \in DOMAIN kvApp
    /\ \A i \in DOMAIN sends :
           /\ sends[i].body.type \in {"action", "reaction"}
                  => AllInEvents(sends[i].blockIds, sends[i].body.activityId)
           /\ sends[i].body.type = "reply"
                  => AllInReplies(sends[i].blockIds, sends[i].body.conversationId)
    /\ \A i \in DOMAIN inbox :
           /\ inbox[i].body.type \in {"action", "reaction"}
                  => AllInEvents(<<inbox[i].to>>, inbox[i].body.activityId)
           /\ inbox[i].body.type = "reply"
                  => AllInReplies(<<inbox[i].to>>, inbox[i].body.conversationId)

\* T1 is subscribed to the conversation "3" and S1 has sent the message "3":
\* a reaction to the message was sent to S1 alone
NamespaceIsolationWitness ==
    /\ RepliesKey(<<"3">>, <<"T", "1">>) \in DOMAIN kvApp
    /\ EventsKey(<<"3">>, <<"S", "1">>) \in DOMAIN kvApp
    /\ act.type = "messageReaction"
    /\ Len(sends) >= 1
    /\ sends[1].body.type = "reaction"
    /\ sends[1].blockIds = <<<<"S", "1">>>>

\* a step of the dispatch: of handleBotActivity, of http.onRequest or of a
\* block's onInternalMessage
DispatchStep ==
    hpc' # hpc \/ act' # act \/ sends' # sends \/ inbox' # inbox \/ emitted' # emitted

\* the step is one write of the execution in progress: the shared key with
\* the value true, or the key of the block's own scope with the event's id
OneWrite ==
    /\ exec.pc = "store" /\ exec'.pc = "store"
    /\ \/ /\ exec'.pending = exec.pending \ {"app"} /\ "app" \in exec.pending
          /\ kvApp' = (exec.appKey :> TRUE) @@ kvApp
          /\ kvBlock' = kvBlock
       \/ /\ exec'.pending = exec.pending \ {"block"} /\ "block" \in exec.pending
          /\ kvBlock' = [kvBlock EXCEPT ![exec.block] = (exec.key :> exec.eventId) @@ @]
          /\ kvApp' = kvApp

\* C32 - inbound dispatch is read-only: no step of handleBotActivity or of an
\* onInternalMessage handler changes the shared index or a block's parent
\* map; the store changes only by a write of a sendMessage or subscribe
\* execution, which writes one shared key with the value true and one key of
\* its block's scope and ends only when both are written.
DispatchReadOnly ==
    [][ /\ DispatchStep => store' = store
        /\ store' # store
               => OneWrite /\ TypeId(exec.block) \in {"sendMessage", "threadSubscription"}
        /\ (exec.pc = "store" /\ exec'.pc = "idle")
               => /\ exec.pending = {}
                  /\ exec.appKey \in DOMAIN kvApp /\ kvApp[exec.appKey] = TRUE
                  /\ exec.key \in DOMAIN kvBlock[exec.block]
        /\ \A k \in DOMAIN kvApp' : kvApp'[k] = TRUE ]_vars

\* S1 has sent message 3 and nothing else was registered: an activity on the
\* message was dispatched and answered, S1 has emitted for it, and the store
\* holds the two keys of S1's execution and nothing else
DispatchReadOnlyWitness ==
    /\ hpc = "responded" /\ inbox = <<>>
    /\ Len(sends) >= 1
    /\ EmittedBy(<<"S", "1">>) >= 1
    /\ DOMAIN kvApp = {EventsKey(<<"3">>, <<"S", "1">>)}
    /\ \A b \in AllBlocks :
           DOMAIN kvBlock[b] = IF b = <<"S", "1">> THEN {<<"3">>} ELSE {}

\* C33 - parent events are scoped per subscriber: a thread subscription
\* block's recorded parents change only by a write of its own execution, and
\* the event it emits for a reply in conversation V is parented to the event
\* of one of its own subscriptions to V, never to the event with which
\* another block subscribed to V.
ParentsPerSubscriber ==
    [][ /\ \A b \in ThreadBlocks :
              kvBlock'[b] # kvBlock[b] => exec.pc = "store" /\ exec.block = b
        /\ (/\ Consumes
            /\ TypeId(Head(inbox).to) = "threadSubscription"
            /\ emitted' # emitted) =>
               \E e \in BagToSet(emitted') :
                   /\ emitted' = emitted (+) SetToBag({e})
                   /\ e.block = Head(inbox).to
                   /\ e.parentEventId \in TriggersOf(e.block, Head(inbox).body.conversationId)
                   /\ \A c \in ThreadBlocks \ {e.block} :
                         e.parentEventId
                             \notin TriggersOf(c, Head(inbox).body.conversationId) ]_vars

\* T1 subscribed to the thread with evtA, then T2 with evtB; a reply in the
\* thread was handled and each block has emitted one event, T1's parented to
\* evtA and T2's to evtB
ParentsPerSubscriberWitness ==
    /\ Settled
    /\ Len(history) = 2
    /\ history[1].block = <<"T", "1">> /\ history[2].block = <<"T", "2">>
    /\ EmittedBy(<<"T", "1">>) = 1 /\ EmittedBy(<<"T", "2">>) = 1
    /\ \A e \in BagToSet(emitted) :
          e.parentEventId = IF e.block = <<"T", "1">> THEN "evtA" ELSE "evtB"

\* the block type the dispatch at position pc delivers to
TypeAt(pc) ==
    IF pc \in {"replyList", "replySend"} THEN "threadSubscription" ELSE "sendMessage"

\* no block deleted before the activity arrived is listed, sent to, handed a
\* message or emitting; quiet tells that nothing was deleted since the arrival
RemovedGetNothing ==
    (hpc # "idle" /\ quiet) =>
        \A b \in AllBlocks \ registry :
            /\ b \notin Range(validBlockIds) \cup Range(targetBlockIds)
            /\ \A i \in DOMAIN sends : b \notin Range(sends[i].blockIds)
            /\ \A i \in DOMAIN inbox : inbox[i].to # b
            /\ EmittedBy(b) = 0

\* the handler's lists are empty between two activities
NothingCarriedOver ==
    hpc = "idle" => subscribedBlockIds = <<>> /\ validBlockIds = <<>> /\ sends = <<>>

\* every send made for a reaction activity lists the filtered ids
ReactionSendsAlike ==
    \A i \in DOMAIN sends :
        sends[i].body.type = "reaction" => sends[i].blockIds = validBlockIds

\* C34 - liveness is evaluated per activity: the filtered list is computed
\* from the registry as it is at the listing step of the activity in hand,
\* which comes after that activity's lookup, and is dropped when the handling
\* ends; a block deleted before the activity arrived receives nothing for it;
\* and all the sends of one reaction activity go to the list computed before
\* the first of them.
LivenessPerActivity ==
    [][ /\ validBlockIds' # validBlockIds =>
              \/ /\ hpc \in ListSteps
                 /\ subscribedBlockIds # <<>> /\ subscribedBlockIds' = subscribedBlockIds
                 /\ validBlockIds' =
                        FilterIn(subscribedBlockIds,
                                 {b \in registry : TypeId(b) = TypeAt(hpc)})
              \/ hpc' = "idle" /\ validBlockIds' = <<>>
        /\ (sends' # sends /\ hpc \in SendSteps) =>
              /\ validBlockIds' = validBlockIds
              /\ sends'[Len(sends')].blockIds = validBlockIds
        /\ NothingCarriedOver'
        /\ RemovedGetNothing'
        /\ ReactionSendsAlike' ]_vars

\* S1 and S2 both sent message 3 and S2 was then deleted from the flow; a
\* reaction with two markers arrived afterwards and both its sends went to
\* S1 alone
LivenessPerActivityWitness ==
    /\ hpc = "responded" /\ quiet
    /\ <<"S", "2">> \notin registry
    /\ EventsKey(<<"3">>, <<"S", "2">>) \in DOMAIN kvApp
    /\ act.type = "messageReaction"
    /\ Len(sends) = 2
    /\ \A i \in DOMAIN sends : sends[i].blockIds = <<<<"S", "1">>>>

\* the request in hand came to the Bot Framework endpoint
ToMessages ==
    hpc # "idle" /\ EndsWith(request.path, MessagesPath)

\* the request in hand carries an Authorization header, under either spelling
HasAuthorization ==
    request.headers.authorization # Undefined \/ request.headers.Authorization # Undefined

\* the value of that header
Authorization ==
    IF request.headers.authorization # Undefined
    THEN request.headers.authorization ELSE request.headers.Authorization

\* nothing was looked up, sent, delivered or emitted for the request in hand
NotHandled ==
    /\ act = NoActivity
    /\ subscribedBlockIds = <<>> /\ validBlockIds = <<>> /\ targetBlockIds = <<>>
    /\ sends = <<>> /\ inbox = <<>> /\ emitted = EmptyBag

\* C35 as stated - webhook authorization gate: a request to the endpoint
\* without an Authorization header is answered 401, one whose header does not
\* start with "Bearer " is answered 403, neither has its activity handled, and
\* an activity is handled only for a request with a Bearer header.
AuthorizationGateAsStated ==
    ToMessages =>
        /\ ~HasAuthorization => responses = <<401>> /\ NotHandled
        /\ (HasAuthorization /\ ~StartsWith(Authorization, BearerPrefix))
               => responses = <<403>> /\ NotHandled
        /\ act # NoActivity => HasAuthorization /\ StartsWith(Authorization, BearerPrefix)

\* C35 as amended - a request to the endpoint with no Authorization header or
\* with an empty one is answered 401, one whose header is not empty and does
\* not start with "Bearer " is answered 403, neither has its activity
\* handled, and an activity is handled only for a request with a Bearer
\* header.
AuthorizationGate ==
    ToMessages =>
        /\ (~HasAuthorization \/ Authorization = <<>>) => responses = <<401>> /\ NotHandled
        /\ (/\ HasAuthorization /\ Authorization # <<>>
            /\ ~StartsWith(Authorization, BearerPrefix))
               => responses = <<403>> /\ NotHandled
        /\ act # NoActivity => HasAuthorization /\ StartsWith(Authorization, BearerPrefix)

\* S1 has sent message 3; a request with a reaction to it and the header
\* "Basic t" was answered 403 and nothing was done for the reaction
AuthorizationGateWitness ==
    /\ ToMessages
    /\ Authorization = BasicCredentials
    /\ responses = <<403>>
    /\ request.body.type = "messageReaction"
    /\ EventsKey(request.body.replyToId, <<"S", "1">>) \in DOMAIN kvApp
    /\ <<"3">> \in DOMAIN kvBlock[<<"S", "1">>]
    /\ <<"S", "1">> \in registry
    /\ NotHandled

\* the sends handleBotActivity has to make for the activity in hand, given
\* what its listings returned: one to the mention targets, and one per
\* reaction change, or one, to the filtered subscribers
AllSent ==
    /\ targetBlockIds # <<>> => \E i \in DOMAIN sends : sends[i].body.type = "mention"
    /\ validBlockIds # <<>> =>
           Cardinality({i \in DOMAIN sends : sends[i].body.type # "mention"})
               = IF act.type = "messageReaction"
                 THEN Len(act.reactionsAdded) + Len(act.reactionsRemoved)
                 ELSE 1

\* the request in hand came to a path that is neither the endpoint nor the
\* manifest download
ToNeither ==
    /\ hpc # "idle"
    /\ ~EndsWith(request.path, MessagesPath)
    /\ ~EndsWith(request.path, ManifestPath)

\* C36 - HTTP response protocol: a request gets at most one response; the
\* 200 of a request to the endpoint is sent when handleBotActivity has
\* returned, with all the sends of the activity made, and nothing is looked
\* up or sent for the request afterwards; a request to a path that is neither
\* the endpoint nor the manifest download is answered 404 and no activity is
\* handled.
ResponseProtocol ==
    [][ /\ Len(responses') <= 1
        /\ (responses' # responses /\ responses' = <<200>>
               /\ EndsWith(request'.path, MessagesPath))
              => /\ hpc = "done" /\ hpc' = "responded"
                 /\ request' = request /\ responses = <<>>
                 /\ sends' = sends /\ AllSent
        /\ (hpc = "responded" /\ hpc' # "idle")
              => /\ hpc' = "responded" /\ responses' = responses
                 /\ sends' = sends
                 /\ subscribedBlockIds' = subscribedBlockIds
                 /\ validBlockIds' = validBlockIds
        /\ ToNeither' => (responses' = <<404>> /\ NotHandled') ]_vars

\* S1 has sent message 3; a reaction to it with two changes came with a Bearer
\* header, both sends were made and the request was answered 200, once
ResponseProtocolWitness ==
    /\ ToMessages /\ hpc = "responded"
    /\ responses = <<200>>
    /\ act.type = "messageReaction"
    /\ validBlockIds = <<<<"S", "1">>>>
    /\ Len(sends) = 2

\* the platform call of the block type whose onEvent is running
PlatformCallOf(typeId) ==
    IF typeId = "deleteMessage" THEN "deleteBotMessage" ELSE "updateBotMessage"

\* what the platform holds of a message once that call has succeeded
EffectOf(typeId) ==
    IF typeId = "deleteMessage" THEN "deleted" ELSE "updated"

\* an execution of deleteMessage.onEvent or updateMessage.onEvent
Editing ==
    exec.pc \in {"threw", "emit"} /\ exec.typeId \in {"deleteMessage", "updateMessage"}

\* deleteMessage or updateMessage makes its events.emit call in this step
EditEmits ==
    Editing /\ exec.pc = "emit" /\ exec'.pc = "idle"

\* C37 - updateMessage and deleteMessage emit after the platform call has
\* succeeded and not otherwise: the step that emits follows the token request
\* and the update or delete call, in this order, and the platform holds the
\* message as updated or deleted; an execution in which the token request or
\* the platform call failed has left the platform as it was and ends without
\* emitting; and updateMessage with neither a text nor at least one
\* attachment ends with an error, without having called the update endpoint
\* and without emitting.
EmitAfterPlatformCall ==
    [][ /\ EditEmits =>
              /\ exec.calls = <<"getBotAccessToken", PlatformCallOf(exec.typeId)>>
              /\ exec.activityId \in DOMAIN platform
              /\ platform[exec.activityId] = EffectOf(exec.typeId)
        /\ (Editing' /\ exec' # exec) =>
              /\ exec'.pc = "threw" =>
                    /\ platform' = platform
                    /\ exec'.error # NoError
                    /\ exec'.error \in {"Failed to update message", "Failed to delete message"}
                          <=> PlatformCallOf(exec'.typeId) \in Range(exec'.calls)
              /\ (exec'.typeId = "updateMessage" /\ NoContent(exec'.text, exec'.attachments)) =>
                    /\ exec'.pc = "threw"
                    /\ "updateBotMessage" \notin Range(exec'.calls)
        /\ (Editing /\ exec.pc = "threw") => exec'.pc \in {"threw", "idle"}
      ]_vars

\* after message 4 was updated and message 3 deleted, updateMessage was
\* triggered with an empty text and an empty list of cards: the token was
\* obtained, the update endpoint was not called, and the execution threw
EmitAfterPlatformCallWitness ==
    /\ Editing /\ exec.pc = "threw" /\ exec.typeId = "updateMessage"
    /\ exec.text = "" /\ exec.attachments = "[]"
    /\ exec.error = "Updated message must have either text content or adaptive cards"
    /\ exec.calls = <<"getBotAccessToken">>
    /\ <<"3">> \in DOMAIN platform /\ platform[<<"3">>] = "deleted"
    /\ <<"4">> \in DOMAIN platform /\ platform[<<"4">>] = "updated"
====
